---- MODULE Spec2Model ----
(***************************************************************************)
(* The LSP message type model of go.lsp.dev/protocol and its JSON wire     *)
(* binding.  Typed Go values are encoded with encoding/json's Marshal and  *)
(* decoded with its Unmarshal (the pair the test suite passes to every     *)
(* test helper); the structures are described by their field tables (JSON  *)
(* key, Go type, omitempty), in declaration order with embedded blocks     *)
(* flattened.                                                              *)
(***************************************************************************)
EXTENDS Integers, Sequences, FiniteSets, TLC

(***************************************************************************)
(* JSON documents.  A document is a tagged value; an object keeps its      *)
(* members as an ordered sequence of <<key, value>> pairs, so key order    *)
(* and duplicate keys are observable.                                      *)
(***************************************************************************)
JNull == << "null", "null" >>

JBool(b) == << "bool", b >>

JNum(n) == << "number", n >>

JStr(s) == << "string", s >>

JArr(s) == << "array", s >>

JObj(members) == << "object", members >>

(***************************************************************************)
(* Go values.  Every value carries its dynamic type, which is what         *)
(* go-cmp compares for a value held in an interface{} field.               *)
(***************************************************************************)
GNil == << "nil", "nil" >>

GBool(b) == << "bool", b >>

GStr(s) == << "string", s >>

GFloat(n) == << "float64", n >>

GInt32(n) == << "int32", n >>

GUint32(n) == << "uint32", n >>

GInt(n) == << "int", n >>

\* A value of the named number type TextDocumentSyncKind.
GSyncKind(n) == << "TextDocumentSyncKind", n >>

GStruct(n, fs) == << "struct", << n, fs >> >>

GPtr(x) == << "ptr", x >>

GSlice(s) == << "slice", s >>

GAnySlice(s) == << "[]interface{}", s >>

GMap(f) == << "map[string]interface{}", f >>

\* A progress token holds either a string or an integer: the variant and
\* what it holds.
GToken(variant, x) == << "ProgressToken", << variant, x >> >>

None == << "none", "none" >>

NoDoc == << "none", "none" >>

\* Bytes that are not a JSON text.
JMalformed == << "malformed", "{" >>

(***************************************************************************)
(* Go types of struct fields.                                              *)
(***************************************************************************)
TBool == [k |-> "bool", n |-> ""]

TString == [k |-> "string", n |-> ""]

TFloat64 == [k |-> "float64", n |-> ""]

TInt32 == [k |-> "int32", n |-> ""]

TUint32 == [k |-> "uint32", n |-> ""]

TInterface == [k |-> "interface", n |-> ""]

TStruct(n) == [k |-> "struct", n |-> n]

TPtr(n) == [k |-> "ptr", n |-> n]

TSlice(n) == [k |-> "slice", n |-> n]

TToken == [k |-> "token", n |-> "ProgressToken"]

\* A field of type ProgressToken, held by value.
TTokenValue == [k |-> "tokenvalue", n |-> "ProgressToken"]

Fld(key, ty, omitempty) == [key |-> key, ty |-> ty, omitempty |-> omitempty]

(***************************************************************************)
(* Field tables of the structures: JSON key, Go type and omitempty flag of *)
(* every field, in declaration order, embedded blocks flattened where they *)
(* are embedded.                                                           *)
(***************************************************************************)
ClientInfo == << Fld("name", TString, FALSE), Fld("version", TString, TRUE) >>

ServerInfo == << Fld("name", TString, FALSE), Fld("version", TString, TRUE) >>

SetTraceParams == << Fld("value", TString, FALSE) >>

LogTraceParams == << Fld("message", TString, FALSE), Fld("verbose", TString, TRUE) >>

WorkDoneProgressOptions == << Fld("workDoneProgress", TBool, TRUE) >>

HoverOptions == WorkDoneProgressOptions

SelectionRangeOptions == WorkDoneProgressOptions

SaveOptions == << Fld("includeText", TBool, TRUE) >>

TextDocumentSyncOptions ==
    << Fld("openClose", TBool, TRUE),
       Fld("change", TFloat64, TRUE),
       Fld("willSave", TBool, TRUE),
       Fld("willSaveWaitUntil", TBool, TRUE),
       Fld("save", TPtr("SaveOptions"), TRUE) >>

DocumentFilter ==
    << Fld("language", TString, TRUE),
       Fld("scheme", TString, TRUE),
       Fld("pattern", TString, TRUE) >>

TextDocumentRegistrationOptions == << Fld("documentSelector", TSlice("DocumentFilter"), FALSE) >>

StaticRegistrationOptions == << Fld("id", TString, TRUE) >>

DeclarationOptions == WorkDoneProgressOptions

DocumentColorOptions == WorkDoneProgressOptions

DeclarationRegistrationOptions ==
    DeclarationOptions \o TextDocumentRegistrationOptions \o StaticRegistrationOptions

DocumentColorRegistrationOptions ==
    TextDocumentRegistrationOptions \o StaticRegistrationOptions \o DocumentColorOptions

DocumentLinkRegistrationOptions ==
    TextDocumentRegistrationOptions \o << Fld("resolveProvider", TBool, TRUE) >>

TextDocumentIdentifier == << Fld("uri", TString, FALSE) >>

Position == << Fld("line", TUint32, FALSE), Fld("character", TUint32, FALSE) >>

TextDocumentPositionParams ==
    << Fld("textDocument", TStruct("TextDocumentIdentifier"), FALSE),
       Fld("position", TStruct("Position"), FALSE) >>

WorkDoneProgressParams == << Fld("workDoneToken", TToken, TRUE) >>

PartialResultParams == << Fld("partialResultToken", TToken, TRUE) >>

ReferenceContext == << Fld("includeDeclaration", TBool, FALSE) >>

ReferencesParams ==
    TextDocumentPositionParams \o WorkDoneProgressParams \o PartialResultParams
    \o << Fld("context", TStruct("ReferenceContext"), FALSE) >>

DocumentHighlightParams ==
    TextDocumentPositionParams \o WorkDoneProgressParams \o PartialResultParams

CompletionOptions ==
    << Fld("resolveProvider", TBool, TRUE),
       Fld("triggerCharacters", TSlice("string"), TRUE) >>

ServerCapabilities ==
    << Fld("textDocumentSync", TInterface, TRUE),
       Fld("hoverProvider", TInterface, TRUE),
       Fld("completionProvider", TPtr("CompletionOptions"), TRUE),
       Fld("selectionRangeProvider", TInterface, TRUE),
       Fld("experimental", TInterface, TRUE) >>

InitializeResult ==
    << Fld("capabilities", TStruct("ServerCapabilities"), FALSE),
       Fld("serverInfo", TPtr("ServerInfo"), TRUE) >>

InitializedParams == << >>

ClientCapabilities == << >>

WorkspaceFolder == << Fld("uri", TString, FALSE), Fld("name", TString, FALSE) >>

WorkDoneProgressCreateParams == << Fld("token", TTokenValue, FALSE) >>

ShowMessageParams == << Fld("message", TString, FALSE), Fld("type", TFloat64, FALSE) >>

Range ==
    << Fld("start", TStruct("Position"), FALSE), Fld("end", TStruct("Position"), FALSE) >>

ShowDocumentParams ==
    << Fld("uri", TString, FALSE),
       Fld("external", TBool, TRUE),
       Fld("takeFocus", TBool, TRUE),
       Fld("selection", TPtr("Range"), TRUE) >>

MessageActionItem == << Fld("title", TString, FALSE) >>

ShowMessageRequestParams ==
    << Fld("actions", TSlice("MessageActionItem"), FALSE),
       Fld("message", TString, FALSE),
       Fld("type", TFloat64, FALSE) >>

LogMessageParams == << Fld("message", TString, FALSE), Fld("type", TFloat64, FALSE) >>

WorkDoneProgressCancelParams == << Fld("token", TTokenValue, FALSE) >>

FileOperationPatternOptions == << Fld("ignoreCase", TBool, TRUE) >>

FileOperationPattern ==
    << Fld("glob", TString, FALSE),
       Fld("matches", TString, TRUE),
       Fld("options", TStruct("FileOperationPatternOptions"), TRUE) >>

InitializeParams ==
    WorkDoneProgressParams
    \o << Fld("processId", TInt32, FALSE),
          Fld("clientInfo", TPtr("ClientInfo"), TRUE),
          Fld("locale", TString, TRUE),
          Fld("rootPath", TString, TRUE),
          Fld("rootUri", TString, FALSE),
          Fld("initializationOptions", TInterface, TRUE),
          Fld("capabilities", TStruct("ClientCapabilities"), FALSE),
          Fld("trace", TString, TRUE),
          Fld("workspaceFolders", TSlice("WorkspaceFolder"), TRUE) >>

Schema(n) ==
    CASE n = "ClientInfo" -> ClientInfo
      [] n = "ServerInfo" -> ServerInfo
      [] n = "SetTraceParams" -> SetTraceParams
      [] n = "LogTraceParams" -> LogTraceParams
      [] n = "HoverOptions" -> HoverOptions
      [] n = "SelectionRangeOptions" -> SelectionRangeOptions
      [] n = "SaveOptions" -> SaveOptions
      [] n = "TextDocumentSyncOptions" -> TextDocumentSyncOptions
      [] n = "DocumentFilter" -> DocumentFilter
      [] n = "DeclarationRegistrationOptions" -> DeclarationRegistrationOptions
      [] n = "DocumentColorRegistrationOptions" -> DocumentColorRegistrationOptions
      [] n = "DocumentLinkRegistrationOptions" -> DocumentLinkRegistrationOptions
      [] n = "TextDocumentIdentifier" -> TextDocumentIdentifier
      [] n = "Position" -> Position
      [] n = "ReferenceContext" -> ReferenceContext
      [] n = "ReferencesParams" -> ReferencesParams
      [] n = "DocumentHighlightParams" -> DocumentHighlightParams
      [] n = "CompletionOptions" -> CompletionOptions
      [] n = "ServerCapabilities" -> ServerCapabilities
      [] n = "InitializeResult" -> InitializeResult
      [] n = "InitializedParams" -> InitializedParams
      [] n = "ClientCapabilities" -> ClientCapabilities
      [] n = "WorkspaceFolder" -> WorkspaceFolder
      [] n = "InitializeParams" -> InitializeParams
      [] n = "WorkDoneProgressCreateParams" -> WorkDoneProgressCreateParams
      [] n = "ShowMessageParams" -> ShowMessageParams
      [] n = "MessageActionItem" -> MessageActionItem
      [] n = "Range" -> Range
      [] n = "ShowDocumentParams" -> ShowDocumentParams
      [] n = "ShowMessageRequestParams" -> ShowMessageRequestParams
      [] n = "LogMessageParams" -> LogMessageParams
      [] n = "WorkDoneProgressCancelParams" -> WorkDoneProgressCancelParams
      [] n = "FileOperationPatternOptions" -> FileOperationPatternOptions
      [] n = "FileOperationPattern" -> FileOperationPattern

TraceOff == "off"

TraceMessage == "message"

TraceVerbose == "verbose"

\* The members of the closed string enumeration TraceValue.
TraceValues == {TraceOff, TraceMessage, TraceVerbose}

TextDocumentSyncKindNone == 0

TextDocumentSyncKindFull == 1

TextDocumentSyncKindIncremental == 2

TextDocumentSyncKinds ==
    {TextDocumentSyncKindNone, TextDocumentSyncKindFull, TextDocumentSyncKindIncremental}

MessageTypeError == 1

MessageTypeWarning == 2

MessageTypeInfo == 3

MessageTypeLog == 4

MessageTypes == {MessageTypeError, MessageTypeWarning, MessageTypeInfo, MessageTypeLog}

PrepareSupportDefaultBehaviorIdentifier == 1

FileOperationPatternKindFile == "file"

FileOperationPatternKindFolder == "folder"

FileOperationPatternKinds == {FileOperationPatternKindFile, FileOperationPatternKindFolder}

\* The element type of a slice type.
ElemType(n) == IF n = "string" THEN TString ELSE TStruct(n)

(***************************************************************************)
(* Marshal: encoding/json's encoder over the Go values above.              *)
(***************************************************************************)
NumTags == {"float64", "int32", "uint32", "int", "TextDocumentSyncKind"}

\* The zero value of a Go type.
RECURSIVE Zero(_)
Zero(ty) ==
    CASE ty.k = "bool" -> GBool(FALSE)
      [] ty.k = "string" -> GStr("")
      [] ty.k = "float64" -> GFloat(0)
      [] ty.k = "int32" -> GInt32(0)
      [] ty.k = "uint32" -> GUint32(0)
      [] ty.k = "struct" ->
            GStruct(ty.n, [i \in 1..Len(Schema(ty.n)) |-> Zero(Schema(ty.n)[i].ty)])
      \* a token that was declared and never constructed: the integer 0
      [] ty.k = "tokenvalue" -> GToken("number", 0)
      [] OTHER -> GNil

\* isEmptyValue without the case for interface values: decided by the
\* value held, so that a nil interface value is not empty.
isEmptyValue_noInterfaceCase(ty, v) ==
    CASE ty.k \in {"ptr", "token"} -> v[1] = "nil"
      [] v[1] = "bool" -> v[2] = FALSE
      [] v[1] = "string" -> v[2] = ""
      [] v[1] \in NumTags -> v[2] = 0
      [] v[1] \in {"slice", "[]interface{}"} -> Len(v[2]) = 0
      [] OTHER -> FALSE

\* isEmptyValue without the case for numbers: 0 is not empty.
isEmptyValue_noNumberCase(ty, v) ==
    CASE ty.k \in {"interface", "ptr", "token"} -> v[1] = "nil"
      [] v[1] = "nil" -> TRUE
      [] v[1] = "bool" -> v[2] = FALSE
      [] v[1] = "string" -> v[2] = ""
      [] v[1] \in {"slice", "[]interface{}"} -> Len(v[2]) = 0
      [] OTHER -> FALSE

\* isEmptyValue without the case for pointers: a nil pointer is not empty.
isEmptyValue_noPointerCase(ty, v) ==
    CASE ty.k = "interface" -> v[1] = "nil"
      [] v[1] = "bool" -> v[2] = FALSE
      [] v[1] = "string" -> v[2] = ""
      [] v[1] \in NumTags -> v[2] = 0
      [] v[1] \in {"slice", "[]interface{}"} -> Len(v[2]) = 0
      [] v[1] = "map[string]interface{}" -> DOMAIN v[2] = {}
      [] OTHER -> FALSE

\* omitempty: false, 0, a nil pointer, a nil interface value, and any empty
\* slice, map or string are empty; a struct, a non-nil pointer and a non-nil
\* interface value (whatever it holds) never are.
isEmptyValue(ty, v) ==
    CASE ty.k \in {"interface", "ptr", "token"} -> v[1] = "nil"
      [] v[1] = "nil" -> TRUE
      [] v[1] = "bool" -> v[2] = FALSE
      [] v[1] = "string" -> v[2] = ""
      [] v[1] \in NumTags -> v[2] = 0
      [] v[1] \in {"slice", "[]interface{}"} -> Len(v[2]) = 0
      [] v[1] = "map[string]interface{}" -> DOMAIN v[2] = {}
      [] OTHER -> FALSE

\* Every object key of the model in byte order, the order in which the
\* encoder emits the keys of a map.
AlphaKeys ==
    << "NAME", "Name", "URI", "Value", "WorkDoneProgress", "change", "includeText",
       "name", "openClose", "save", "unknownKey", "value", "version", "willSave",
       "willSaveWaitUntil", "workDoneProgress", "zzUnknown" >>

sortedKeys(m) == SelectSeq(AlphaKeys, LAMBDA key : key \in DOMAIN m)

\* sliceEncoder taking an empty slice for a nil one.
sliceEncoder_emptyAsNull(elems) == IF Len(elems) = 0 THEN JNull ELSE JArr(elems)

\* sliceEncoder emitting the elements last to first.
sliceEncoder_reversed(elems) == JArr([i \in 1..Len(elems) |-> elems[Len(elems) + 1 - i]])

\* A non-nil slice is an array, also when it is empty.
sliceEncoder(elems) == JArr(elems)

\* ProgressToken.MarshalJSON taking a token for a number whenever the
\* string it holds is empty.
ProgressTokenMarshalJSON_byEmptiness(t) ==
    IF t[2][1] = "string" /\ t[2][2] # "" THEN JStr(t[2][2])
    ELSE JNum(IF t[2][1] = "number" THEN t[2][2] ELSE 0)

\* ProgressToken.MarshalJSON: a JSON string or a JSON number, by the
\* variant that was constructed.
ProgressTokenMarshalJSON(t) ==
    IF t[2][1] = "string" THEN JStr(t[2][2]) ELSE JNum(t[2][2])

RECURSIVE encodeValue(_), structEncoder(_, _, _)
\* The JSON document of a Go value.
encodeValue(v) ==
    CASE v[1] = "nil" -> JNull
      [] v[1] = "bool" -> JBool(v[2])
      [] v[1] = "string" -> JStr(v[2])
      [] v[1] \in NumTags -> JNum(v[2])
      [] v[1] = "struct" -> JObj(structEncoder(Schema(v[2][1]), v[2][2], 1))
      [] v[1] = "ptr" -> encodeValue(v[2])
      [] v[1] \in {"slice", "[]interface{}"} ->
            sliceEncoder([i \in 1..Len(v[2]) |-> encodeValue(v[2][i])])
      [] v[1] = "map[string]interface{}" ->
            JObj([i \in 1..Len(sortedKeys(v[2])) |->
                    << sortedKeys(v[2])[i], encodeValue(v[2][sortedKeys(v[2])[i]]) >>])
      [] v[1] = "ProgressToken" -> ProgressTokenMarshalJSON(v)

\* structEncoder leaving out every field that is empty, tagged omitempty
\* or not.
structEncoder_omitsEmpty(fields, vals, i) ==
    IF i > Len(fields) THEN << >>
    ELSE (IF isEmptyValue(fields[i].ty, vals[i])
          THEN << >>
          ELSE << << fields[i].key, encodeValue(vals[i]) >> >>)
         \o structEncoder(fields, vals, i + 1)

\* structEncoder emitting the fields last to first.
structEncoder_reversed(fields, vals, i) ==
    IF i > Len(fields) THEN << >>
    ELSE structEncoder(fields, vals, i + 1)
         \o (IF fields[i].omitempty /\ isEmptyValue(fields[i].ty, vals[i])
             THEN << >>
             ELSE << << fields[i].key, encodeValue(vals[i]) >> >>)

\* The members of a struct's object: the fields from the i-th on, in
\* declaration order, leaving out an omitempty field that is empty.
structEncoder(fields, vals, i) ==
    IF i > Len(fields) THEN << >>
    ELSE (IF fields[i].omitempty /\ isEmptyValue(fields[i].ty, vals[i])
          THEN << >>
          ELSE << << fields[i].key, encodeValue(vals[i]) >> >>)
         \o structEncoder(fields, vals, i + 1)

Marshal(v) == encodeValue(v)

(***************************************************************************)
(* Unmarshal: encoding/json's decoder into a Go value of a given type.     *)
(* A result is the value stored, whether an error is returned, and whether *)
(* decoding stopped at the error (an error of a custom UnmarshalJSON) or   *)
(* went on (a saved type-mismatch error).                                  *)
(***************************************************************************)
Ok(v) == [val |-> v, err |-> FALSE, abort |-> FALSE]

TypeError(v) == [val |-> v, err |-> TRUE, abort |-> FALSE]

Abort(v) == [val |-> v, err |-> TRUE, abort |-> TRUE]

\* Key matching is exact first and case-insensitive second.
FoldKey(key) ==
    CASE key \in {"NAME", "Name"} -> "name"
      [] key = "URI" -> "uri"
      [] key = "Value" -> "value"
      [] key = "WorkDoneProgress" -> "workdoneprogress"
      [] key = "workDoneProgress" -> "workdoneprogress"
      [] OTHER -> key

\* The index of the field an object key is stored into, 0 for an unknown key.
FieldIndex(fields, key) ==
    IF \E i \in 1..Len(fields) : fields[i].key = key
    THEN CHOOSE i \in 1..Len(fields) : fields[i].key = key
    ELSE IF \E i \in 1..Len(fields) : FoldKey(fields[i].key) = FoldKey(key)
         THEN CHOOSE i \in 1..Len(fields) :
                 /\ FoldKey(fields[i].key) = FoldKey(key)
                 /\ \A j \in 1..(i - 1) : FoldKey(fields[j].key) # FoldKey(key)
         ELSE 0

\* The last member with a key wins in a map.
LastIndex(members, key) ==
    CHOOSE i \in 1..Len(members) :
        /\ members[i][1] = key
        /\ \A j \in (i + 1)..Len(members) : members[j][1] # key

\* convertNumber storing an integer.
convertNumber_int(n) == GInt(n)

\* A JSON number stored into an interface{} value is a float64.
convertNumber(n) == GFloat(n)

RECURSIVE valueInterface(_)
\* Decoding into an empty interface value selects the Go type by JSON kind.
valueInterface(j) ==
    CASE j[1] = "null" -> GNil
      [] j[1] = "bool" -> GBool(j[2])
      [] j[1] = "number" -> convertNumber(j[2])
      [] j[1] = "string" -> GStr(j[2])
      [] j[1] = "array" -> GAnySlice([i \in 1..Len(j[2]) |-> valueInterface(j[2][i])])
      [] j[1] = "object" ->
            GMap([key \in {j[2][i][1] : i \in 1..Len(j[2])} |->
                    valueInterface(j[2][LastIndex(j[2], key)][2])])

Digits == << "0", "1", "2", "3", "4", "5", "6", "7", "8", "9" >>

RECURSIVE FormatInt(_)
\* The decimal digits of an integer.
FormatInt(n) ==
    IF n < 0 THEN "-" \o FormatInt(-n)
    ELSE IF n < 10 THEN Digits[n + 1]
    ELSE FormatInt(n \div 10) \o Digits[(n % 10) + 1]

\* NewProgressToken(s) and NewNumberProgressToken(n): the string and the
\* integer variant of a token.
NewProgressToken(s) == GPtr(GToken("string", s))

NewNumberProgressToken(n) == GPtr(GToken("number", n))

\* fmt.Sprint(token): the string held, or the digits of the integer held.
ProgressTokenString(t) == IF t[2][1] = "string" THEN t[2][2] ELSE FormatInt(t[2][2])

\* strconv.FormatFloat(float64(m), 'f', -10, 64) of a whole number: the
\* shortest decimal form, which has no fraction and no exponent.
FormatFloat(n) == FormatInt(n)

\* MessageType.String with the names capitalised.
MessageTypeString_capitalised(m) ==
    CASE m = MessageTypeError -> "Error"
      [] m = MessageTypeWarning -> "Warning"
      [] m = MessageTypeInfo -> "Info"
      [] m = MessageTypeLog -> "Log"
      [] OTHER -> FormatFloat(m)

\* MessageType.String with a default case that returns no text.
MessageTypeString_emptyDefault(m) ==
    CASE m = MessageTypeError -> "error"
      [] m = MessageTypeWarning -> "warning"
      [] m = MessageTypeInfo -> "info"
      [] m = MessageTypeLog -> "log"
      [] OTHER -> ""

\* func (m MessageType) String() string
MessageTypeString(m) ==
    CASE m = MessageTypeError -> "error"
      [] m = MessageTypeWarning -> "warning"
      [] m = MessageTypeInfo -> "info"
      [] m = MessageTypeLog -> "log"
      [] OTHER -> FormatFloat(m)

\* func (k TextDocumentSyncKind) String() string
TextDocumentSyncKindString(k) ==
    CASE k = TextDocumentSyncKindNone -> "None"
      [] k = TextDocumentSyncKindFull -> "Full"
      [] k = TextDocumentSyncKindIncremental -> "Incremental"
      [] OTHER -> FormatFloat(k)

\* func (k PrepareSupportDefaultBehavior) String() string
PrepareSupportDefaultBehaviorString(k) ==
    CASE k = PrepareSupportDefaultBehaviorIdentifier -> "Identifier"
      [] OTHER -> FormatFloat(k)

\* The String method of the enumeration named t.
String(t, n) ==
    CASE t = "MessageType" -> MessageTypeString(n)
      [] t = "TextDocumentSyncKind" -> TextDocumentSyncKindString(n)
      [] t = "PrepareSupportDefaultBehavior" -> PrepareSupportDefaultBehaviorString(n)

\* ProgressToken.UnmarshalJSON: a JSON number gives the integer variant, a
\* JSON string the string variant; null leaves the token at its zero value
\* and any other document is an error.
ProgressTokenUnmarshalJSON(j) ==
    CASE j[1] = "number" -> Ok(GToken("number", j[2]))
      [] j[1] = "string" -> Ok(GToken("string", j[2]))
      [] j[1] = "null" -> Ok(GToken("number", 0))
      [] OTHER -> Abort(GToken("number", 0))

\* storeNull emptying a slice instead of setting it to nil.
storeNull_emptySlice(ty, cur) ==
    CASE ty.k \in {"interface", "ptr", "token"} -> Ok(GNil)
      [] ty.k = "slice" -> Ok(GSlice(<< >>))
      [] OTHER -> Ok(cur)

\* The JSON null sets an interface, pointer or slice to nil and has no
\* effect on a value of another type.
storeNull(ty, cur) ==
    IF ty.k \in {"interface", "ptr", "slice", "token"} THEN Ok(GNil) ELSE Ok(cur)

RECURSIVE decodeValue(_, _, _), decodeObject(_, _, _, _, _), decodeArray(_, _, _)
decodeValue(ty, j, cur) ==
    IF j[1] = "null"
    THEN (IF ty.k = "tokenvalue" THEN ProgressTokenUnmarshalJSON(j) ELSE storeNull(ty, cur))
    ELSE CASE ty.k = "bool" -> IF j[1] = "bool" THEN Ok(GBool(j[2])) ELSE TypeError(cur)
           [] ty.k = "string" -> IF j[1] = "string" THEN Ok(GStr(j[2])) ELSE TypeError(cur)
           [] ty.k = "float64" -> IF j[1] = "number" THEN Ok(GFloat(j[2])) ELSE TypeError(cur)
           [] ty.k = "int32" ->
                 IF j[1] = "number" THEN Ok(GInt32(j[2])) ELSE TypeError(cur)
           [] ty.k = "uint32" ->
                 IF j[1] = "number" /\ j[2] >= 0 THEN Ok(GUint32(j[2])) ELSE TypeError(cur)
           [] ty.k = "interface" -> Ok(valueInterface(j))
           [] ty.k = "struct" ->
                 IF j[1] = "object"
                 THEN LET r == decodeObject(Schema(ty.n), j[2], 1, cur[2][2], FALSE)
                      IN  [val |-> GStruct(ty.n, r.val), err |-> r.err, abort |-> r.abort]
                 ELSE TypeError(cur)
           [] ty.k = "ptr" ->
                 LET base == IF cur[1] = "nil" THEN Zero(TStruct(ty.n)) ELSE cur[2]
                     r == decodeValue(TStruct(ty.n), j, base)
                 IN  [val |-> GPtr(r.val), err |-> r.err, abort |-> r.abort]
           [] ty.k = "slice" ->
                 IF j[1] = "array" THEN decodeArray(ElemType(ty.n), j[2], 1) ELSE TypeError(cur)
           [] ty.k = "token" ->
                 LET r == ProgressTokenUnmarshalJSON(j)
                 IN  [val |-> GPtr(r.val), err |-> r.err, abort |-> r.abort]
           [] ty.k = "tokenvalue" -> ProgressTokenUnmarshalJSON(j)

\* decodeObject as under DisallowUnknownFields: an unknown key is an error.
decodeObject_disallowUnknownFields(fields, members, i, vals, err) ==
    IF i > Len(members)
    THEN [val |-> vals, err |-> err, abort |-> FALSE]
    ELSE LET idx == FieldIndex(fields, members[i][1])
         IN  IF idx = 0
             THEN decodeObject(fields, members, i + 1, vals, TRUE)
             ELSE LET r == decodeValue(fields[idx].ty, members[i][2], vals[idx])
                      vals2 == [vals EXCEPT ![idx] = r.val]
                  IN  IF r.abort
                      THEN [val |-> vals2, err |-> TRUE, abort |-> TRUE]
                      ELSE decodeObject(fields, members, i + 1, vals2, err \/ r.err)

\* decodeObject forgetting the type-mismatch error of a member once the
\* member has been skipped.
decodeObject_dropsTypeError(fields, members, i, vals, err) ==
    IF i > Len(members)
    THEN [val |-> vals, err |-> err, abort |-> FALSE]
    ELSE LET idx == FieldIndex(fields, members[i][1])
         IN  IF idx = 0
             THEN decodeObject(fields, members, i + 1, vals, err)
             ELSE LET r == decodeValue(fields[idx].ty, members[i][2], vals[idx])
                      vals2 == [vals EXCEPT ![idx] = r.val]
                  IN  IF r.abort
                      THEN [val |-> vals2, err |-> TRUE, abort |-> TRUE]
                      ELSE decodeObject(fields, members, i + 1, vals2, err)

\* The members of an object are stored one after the other from the i-th
\* on: an unknown key is skipped, a type mismatch is remembered and decoding
\* goes on, an aborting error stops it.
decodeObject(fields, members, i, vals, err) ==
    IF i > Len(members)
    THEN [val |-> vals, err |-> err, abort |-> FALSE]
    ELSE LET idx == FieldIndex(fields, members[i][1])
         IN  IF idx = 0
             THEN decodeObject(fields, members, i + 1, vals, err)
             ELSE LET r == decodeValue(fields[idx].ty, members[i][2], vals[idx])
                      vals2 == [vals EXCEPT ![idx] = r.val]
                  IN  IF r.abort
                      THEN [val |-> vals2, err |-> TRUE, abort |-> TRUE]
                      ELSE decodeObject(fields, members, i + 1, vals2, err \/ r.err)

\* decodeArray taking an empty array for no array at all: the slice stays nil.
decodeArray_nilWhenEmpty(ety, elems, i) ==
    IF i > Len(elems)
    THEN (IF Len(elems) = 0 THEN Ok(GNil) ELSE Ok(GSlice(<< >>)))
    ELSE LET r == decodeValue(ety, elems[i], Zero(ety))
         IN  IF r.abort
             THEN Abort(GSlice(<< r.val >>))
             ELSE LET rest == decodeArray(ety, elems, i + 1)
                  IN  [val |-> GSlice(<< r.val >> \o rest.val[2]),
                       err |-> r.err \/ rest.err, abort |-> rest.abort]

decodeArray(ety, elems, i) ==
    IF i > Len(elems)
    THEN Ok(GSlice(<< >>))
    ELSE LET r == decodeValue(ety, elems[i], Zero(ety))
         IN  IF r.abort
             THEN Abort(GSlice(<< r.val >>))
             ELSE LET rest == decodeArray(ety, elems, i + 1)
                  IN  [val |-> GSlice(<< r.val >> \o rest.val[2]),
                       err |-> r.err \/ rest.err, abort |-> rest.abort]

\* Unmarshal validating the trace value of SetTraceParams against the
\* members of TraceValue.
Unmarshal_validatingTrace(n, j) ==
    IF /\ n = "SetTraceParams"
       /\ j[1] = "object"
       /\ \E i \in 1..Len(j[2]) :
             /\ j[2][i][1] = "value"
             /\ j[2][i][2][1] = "string"
             /\ j[2][i][2][2] \notin TraceValues
    THEN TypeError(Zero(TStruct(n)))
    ELSE decodeValue(TStruct(n), j, Zero(TStruct(n)))

\* Unmarshal rejecting a document that lacks the key of a field without
\* omitempty.
Unmarshal_requiredKeys(n, j) ==
    IF /\ j[1] = "object"
       /\ \E i \in 1..Len(Schema(n)) :
             /\ ~Schema(n)[i].omitempty
             /\ \A m \in 1..Len(j[2]) : FieldIndex(Schema(n), j[2][m][1]) # i
    THEN TypeError(Zero(TStruct(n)))
    ELSE decodeValue(TStruct(n), j, Zero(TStruct(n)))

\* Unmarshal rejecting a range whose end is before its start.
Unmarshal_validatingRange(n, j) ==
    LET r == decodeValue(TStruct(n), j, Zero(TStruct(n)))
        before(e, b) == e[2][2][1][2] < b[2][2][1][2]
                        \/ (e[2][2][1][2] = b[2][2][1][2] /\ e[2][2][2][2] < b[2][2][2][2])
    IN  IF n = "Range" /\ before(r.val[2][2][2], r.val[2][2][1])
        THEN TypeError(Zero(TStruct(n)))
        ELSE r

\* Unmarshal rejecting a number that is no member of the enumeration of
\* the field it is stored into.
Unmarshal_validatingEnum(n, j) ==
    IF /\ j[1] = "object"
       /\ \E i \in 1..Len(j[2]) :
             /\ j[2][i][2][1] = "number"
             /\ \/ /\ n = "ShowMessageParams"
                   /\ j[2][i][1] = "type"
                   /\ j[2][i][2][2] \notin MessageTypes
                \/ /\ n = "TextDocumentSyncOptions"
                   /\ j[2][i][1] = "change"
                   /\ j[2][i][2][2] \notin TextDocumentSyncKinds
    THEN TypeError(Zero(TStruct(n)))
    ELSE decodeValue(TStruct(n), j, Zero(TStruct(n)))

\* Unmarshal(data, &got) with got a fresh variable of the structure type.
\* Bytes that are not a JSON text are an error before anything is stored.
Unmarshal(n, j) ==
    IF j = JMalformed
    THEN TypeError(Zero(TStruct(n)))
    ELSE decodeValue(TStruct(n), j, Zero(TStruct(n)))

(***************************************************************************)
(* The values the operations are applied to: every field ranges over its   *)
(* zero value and the values the tests populate it with.                   *)
(***************************************************************************)
\* Longest slice a value is built with.
MaxLen == 2

wantWorkDoneToken == "156edea9-9d8d-422f-b7ee-81a84594afbb"

wantPartialResultToken == "dd134d84-c134-4d7a-a2a3-f8af3ef4a568"


\* The value a test populates a string field with.
ExStr(key) ==
    CASE key = "name" -> "testClient"
      [] key = "version" -> "v0.0.0"
      [] key = "value" -> TraceVerbose
      [] key = "verbose" -> TraceVerbose
      [] key = "message" -> "testMessage"
      [] key = "language" -> "go"
      [] key = "scheme" -> "file"
      [] key = "pattern" -> "*"
      [] key = "id" -> "1"
      [] key = "uri" -> "file:///path/to/basic.go"
      [] key = "locale" -> "en-US"
      [] key = "rootPath" -> "~/go/src/go.lsp.dev/protocol"
      [] key = "rootUri" -> "file:///Users/zchee/go/src/go.lsp.dev/protocol"
      [] key = "trace" -> "on"
      [] key = "glob" -> "*"
      [] key = "matches" -> FileOperationPatternKindFile
      [] key = "title" -> "Retry"
      [] OTHER -> "Tab"

ExNum(key) ==
    CASE key = "processId" -> 25556
      [] key = "change" -> TextDocumentSyncKindFull
      [] key = "type" -> MessageTypeError
      [] key = "line" -> 25
      [] OTHER -> 1

ExToken(key) ==
    IF key = "partialResultToken" THEN wantPartialResultToken ELSE wantWorkDoneToken

\* What a progress token is constructed from.
TokenStrings == {"", wantWorkDoneToken, wantPartialResultToken, "7"}

TokenNumbers == {-1, 0, 1, 7, 25556}

Strings(key) ==
    {"", ExStr(key)} \cup
    (CASE key = "value" -> {TraceOff, "invalid"}
       [] key = "id" -> {"0"}
       [] key = "matches" -> {FileOperationPatternKindFolder, "invalid"}
       [] OTHER -> {})

Numbers(key) ==
    {0, ExNum(key)} \cup
    (CASE key = "change" -> TextDocumentSyncKinds \cup {99}
       [] key = "type" -> MessageTypes \cup {-1, 5, 99}
       [] OTHER -> {})

Num(ty, n) ==
    CASE ty.k = "float64" -> GFloat(n)
      [] ty.k = "int32" -> GInt32(n)
      [] ty.k = "uint32" -> GUint32(n)

RECURSIVE Full(_), FullField(_)
\* The value of a structure with every field populated, as in the tests'
\* wantType values.
Full(n) == GStruct(n, [i \in 1..Len(Schema(n)) |-> FullField(Schema(n)[i])])

FullField(f) ==
    CASE f.ty.k = "bool" -> GBool(TRUE)
      [] f.ty.k = "string" -> GStr(ExStr(f.key))
      [] f.ty.k \in {"float64", "int32", "uint32"} -> Num(f.ty, ExNum(f.key))
      [] f.ty.k = "struct" -> Full(f.ty.n)
      [] f.ty.k = "ptr" -> GPtr(Full(f.ty.n))
      [] f.ty.k = "slice" ->
            GSlice(<< IF f.ty.n = "string" THEN GStr(ExStr(f.key)) ELSE Full(f.ty.n) >>)
      [] f.ty.k = "token" -> NewProgressToken(ExToken(f.key))
      [] f.ty.k = "tokenvalue" -> NewProgressToken(ExToken(f.key))[2]
      [] f.ty.k = "interface" ->
            CASE f.key = "textDocumentSync" -> GFloat(1)
              [] f.key = "experimental" -> GStr("Awesome Experimentals")
              [] f.key = "initializationOptions" -> GStr("testdata")
              [] OTHER -> GBool(TRUE)

\* What a caller may store in an interface{} field.
InterfaceValues(key) ==
    CASE key = "textDocumentSync" ->
            {GNil, GFloat(1), GFloat(0), GSyncKind(1), GPtr(Full("TextDocumentSyncOptions"))}
      [] key = "hoverProvider" ->
            {GNil, GBool(TRUE), GBool(FALSE), GPtr(Full("HoverOptions")),
             GPtr(Zero(TStruct("HoverOptions")))}
      [] key = "selectionRangeProvider" ->
            {GNil, GBool(TRUE), GBool(FALSE), GPtr(Full("SelectionRangeOptions"))}
      [] key = "experimental" -> {GNil, GStr("Awesome Experimentals"), GInt(1)}
      [] OTHER -> {GNil, GStr("testdata"), GBool(TRUE)}

SeqsUpTo(S, n) == UNION {[1..m -> S] : m \in 0..n}

\* The values a field ranges over.
FieldValues(f) ==
    CASE f.ty.k = "bool" -> {GBool(FALSE), GBool(TRUE)}
      [] f.ty.k = "string" -> {GStr(x) : x \in Strings(f.key)}
      [] f.ty.k \in {"float64", "int32", "uint32"} -> {Num(f.ty, x) : x \in Numbers(f.key)}
      [] f.ty.k = "struct" -> {Zero(f.ty), Full(f.ty.n)}
      [] f.ty.k = "ptr" -> {GNil, GPtr(Zero(TStruct(f.ty.n))), GPtr(Full(f.ty.n))}
      [] f.ty.k = "slice" ->
            {GNil} \cup
            {GSlice(x) : x \in SeqsUpTo(IF f.ty.n = "string"
                                        THEN {GStr(ExStr(f.key))}
                                        ELSE {Full(f.ty.n)}, MaxLen)}
      [] f.ty.k = "token" ->
            {GNil, NewProgressToken(ExToken(f.key)), NewNumberProgressToken(7)}
      [] f.ty.k = "tokenvalue" ->
            {NewProgressToken(x)[2] : x \in TokenStrings}
            \cup {NewNumberProgressToken(x)[2] : x \in TokenNumbers}
      [] f.ty.k = "interface" -> InterfaceValues(f.key)

RECURSIVE Product(_, _)
Product(fields, i) ==
    IF i > Len(fields) THEN {<< >>}
    ELSE {<< x >> \o rest : x \in FieldValues(fields[i]), rest \in Product(fields, i + 1)}

\* The values of structure n.
Values(n) == {GStruct(n, vals) : vals \in Product(Schema(n), 1)}

\* The structures the tests encode and decode.
Types ==
    {"ClientInfo", "SetTraceParams", "LogTraceParams", "HoverOptions",
     "TextDocumentSyncOptions", "DeclarationRegistrationOptions",
     "DocumentColorRegistrationOptions", "DocumentLinkRegistrationOptions",
     "ReferencesParams", "DocumentHighlightParams", "ServerCapabilities",
     "InitializeResult",
     "InitializedParams", "InitializeParams", "WorkDoneProgressCreateParams",
     "ShowMessageParams", "FileOperationPattern", "ShowMessageRequestParams",
     "LogMessageParams", "WorkDoneProgressCancelParams", "Range",
     "ShowDocumentParams"}

(***************************************************************************)
(* The wire documents of the tests.                                        *)
(***************************************************************************)
DocumentFilterDoc(language, pattern) ==
    JObj(<< << "language", JStr(language) >>, << "scheme", JStr("file") >>,
            << "pattern", JStr(pattern) >> >>)

testClientInfo_want ==
    JObj(<< << "name", JStr("testClient") >>, << "version", JStr("v0.0.0") >> >>)

testClientInfo_wantNilAll == JObj(<< << "name", JStr("testClient") >> >>)

testSetTraceParams_want == JObj(<< << "value", JStr("verbose") >> >>)

testSetTraceParams_wantInvalid == JObj(<< << "value", JStr("invalid") >> >>)

testSetTraceParams_wantType == GStruct("SetTraceParams", << GStr(TraceVerbose) >>)

testReferencesParams_want ==
    JObj(<< << "textDocument", JObj(<< << "uri", JStr("file:///path/to/basic.go") >> >>) >>,
            << "position", JObj(<< << "line", JNum(25) >>, << "character", JNum(1) >> >>) >>,
            << "workDoneToken", JStr(wantWorkDoneToken) >>,
            << "partialResultToken", JStr(wantPartialResultToken) >>,
            << "context", JObj(<< << "includeDeclaration", JBool(TRUE) >> >>) >> >>)

testReferencesParams_wantInvalid ==
    JObj(<< << "textDocument", JObj(<< << "uri", JStr("file:///path/to/basic_gen.go") >> >>) >>,
            << "position", JObj(<< << "line", JNum(2) >>, << "character", JNum(1) >> >>) >>,
            << "workDoneToken", JStr(wantPartialResultToken) >>,
            << "partialResultToken", JStr(wantWorkDoneToken) >>,
            << "context", JObj(<< << "includeDeclaration", JBool(FALSE) >> >>) >> >>)

testDocumentHighlightParams_want ==
    JObj(<< << "textDocument", JObj(<< << "uri", JStr("file:///path/to/basic.go") >> >>) >>,
            << "position", JObj(<< << "line", JNum(25) >>, << "character", JNum(1) >> >>) >>,
            << "workDoneToken", JStr(wantWorkDoneToken) >>,
            << "partialResultToken", JStr(wantPartialResultToken) >> >>)

testDocumentHighlightParams_wantNilAll ==
    JObj(<< << "textDocument", JObj(<< << "uri", JStr("file:///path/to/basic.go") >> >>) >>,
            << "position", JObj(<< << "line", JNum(25) >>, << "character", JNum(1) >> >>) >> >>)

testDeclarationRegistrationOptions_want ==
    JObj(<< << "workDoneProgress", JBool(TRUE) >>,
            << "documentSelector", JArr(<< DocumentFilterDoc("go", "*") >>) >>,
            << "id", JStr("1") >> >>)

testDeclarationRegistrationOptions_wantNil ==
    JObj(<< << "documentSelector", JArr(<< DocumentFilterDoc("go", "*") >>) >> >>)

testDeclarationRegistrationOptions_wantInvalid ==
    JObj(<< << "workDoneProgress", JBool(FALSE) >>,
            << "documentSelector", JArr(<< DocumentFilterDoc("typescript", "*.{ts,js}") >>) >>,
            << "id", JStr("0") >> >>)

testDocumentColorRegistrationOptions_want ==
    JObj(<< << "documentSelector", JArr(<< DocumentFilterDoc("go", "*") >>) >>,
            << "id", JStr("1") >>,
            << "workDoneProgress", JBool(TRUE) >> >>)

testDocumentLinkRegistrationOptions_wantNil ==
    JObj(<< << "documentSelector", JArr(<< >>) >> >>)

testDocumentLinkRegistrationOptions_wantTypeNilAll ==
    GStruct("DocumentLinkRegistrationOptions", << GSlice(<< >>), GBool(FALSE) >>)

testInitializeResult_wantNil == JObj(<< << "capabilities", JObj(<< >>) >> >>)

testTextDocumentSyncOptions_want ==
    JObj(<< << "openClose", JBool(TRUE) >>, << "change", JNum(1) >>,
            << "willSave", JBool(TRUE) >>, << "willSaveWaitUntil", JBool(TRUE) >>,
            << "save", JObj(<< << "includeText", JBool(TRUE) >> >>) >> >>)

PositionDoc(l, c) == JObj(<< << "line", JNum(l) >>, << "character", JNum(c) >> >>)

RangeDoc(sl, sc, el, ec) ==
    JObj(<< << "start", PositionDoc(sl, sc) >>, << "end", PositionDoc(el, ec) >> >>)

testShowDocumentParams_want ==
    JObj(<< << "uri", JStr("file:///path/to/basic.go") >>, << "external", JBool(TRUE) >>,
            << "takeFocus", JBool(TRUE) >>, << "selection", RangeDoc(255, 4, 255, 10) >> >>)

testShowDocumentParams_wantType ==
    GStruct("ShowDocumentParams",
        << GStr("file:///path/to/basic.go"), GBool(TRUE), GBool(TRUE),
           GPtr(GStruct("Range",
                << GStruct("Position", << GUint32(255), GUint32(4) >>),
                   GStruct("Position", << GUint32(255), GUint32(10) >>) >>)) >>)

testShowDocumentParams_wantNil == JObj(<< << "uri", JStr("file:///path/to/basic.go") >> >>)

\* The ranges a peer may send: the selection of testShowDocumentParams and
\* the ranges over its lines and characters and the ones before them, the
\* end before the start included.
RangeDocuments ==
    {RangeDoc(sl, sc, el, ec) : sl \in {254, 255}, sc \in {4, 10}, el \in {254, 255},
                                ec \in {4, 10}}

\* The documents a test decodes into structure n besides its valid ones.
TestDocuments(n) ==
    CASE n = "SetTraceParams" -> {testSetTraceParams_wantInvalid}
      [] n = "ReferencesParams" -> {testReferencesParams_wantInvalid}
      [] n = "DocumentHighlightParams" -> {testDocumentHighlightParams_wantNilAll}
      [] n = "DeclarationRegistrationOptions" ->
            {testDeclarationRegistrationOptions_wantNil,
             testDeclarationRegistrationOptions_wantInvalid}
      [] n = "DocumentLinkRegistrationOptions" -> {testDocumentLinkRegistrationOptions_wantNil}
      [] n = "Range" -> RangeDocuments
      [] n = "ShowDocumentParams" ->
            {testShowDocumentParams_want, testShowDocumentParams_wantNil}
            \cup {JObj(<< << "uri", JStr("file:///path/to/basic.go") >>,
                          << "selection", d >> >>) : d \in RangeDocuments}
      [] n = "WorkDoneProgressCreateParams" ->
            {JObj(<< << "token", JStr(x) >> >>) : x \in TokenStrings}
      [] OTHER -> {}

(***************************************************************************)
(* Documents a peer may send: the tests' documents and the encodings of    *)
(* the values, and those with a member added (an unknown key, a key in     *)
(* another letter case, a repeated key), removed, or holding another value.*)
(***************************************************************************)
ExtraKeys == {"unknownKey", "zzUnknown", "Name", "NAME", "URI", "Value", "WorkDoneProgress"}

ExtraValues ==
    {JNull, JBool(TRUE), JNum(1), JNum(-1), JStr("x"), JArr(<< >>), JObj(<< >>),
     JObj(<< << "unknownKey", JNum(1) >> >>)}

InsertAt(members, pos, m) ==
    SubSeq(members, 1, pos) \o << m >> \o SubSeq(members, pos + 1, Len(members))

RemoveAt(members, pos) ==
    SubSeq(members, 1, pos - 1) \o SubSeq(members, pos + 1, Len(members))

Variants(d) ==
    {JObj(InsertAt(d[2], pos, << key, x >>)) :
        pos \in 0..Len(d[2]), key \in ExtraKeys, x \in ExtraValues}
    \cup {JObj([d[2] EXCEPT ![pos] = << d[2][pos][1], x >>]) :
            pos \in 1..Len(d[2]), x \in ExtraValues}
    \cup {JObj(RemoveAt(d[2], pos)) : pos \in 1..Len(d[2])}

Documents(n) ==
    LET base == {Marshal(Zero(TStruct(n))), Marshal(Full(n))} \cup TestDocuments(n)
    IN  {Marshal(v) : v \in Values(n)}
        \cup base
        \cup UNION {Variants(d) : d \in base}
        \cup {JNull, JStr("x"), JArr(<< >>), JMalformed}

AllValues == [n \in Types |-> Values(n)]

AllDocuments == [n \in Types |-> Documents(n)]

(***************************************************************************)
(* The state: the operation last run, the structure it ran on, the value   *)
(* encoded (None when the document decoded was not encoded here), the wire *)
(* document, the value decoded and whether an error was returned.          *)
(***************************************************************************)
VARIABLES op, typ, val, wire, got, err, messageTypeMap

vars == << op, typ, val, wire, got, err, messageTypeMap >>

\* var messageTypeMap = map[string]MessageType{...}
messageTypeMapLiteral ==
    [name \in {"error", "warning", "info", "log"} |->
        CASE name = "error" -> MessageTypeError
          [] name = "warning" -> MessageTypeWarning
          [] name = "info" -> MessageTypeInfo
          [] name = "log" -> MessageTypeLog]

Init ==
    /\ op = "init"
    /\ typ = "none"
    /\ val = None
    /\ wire = NoDoc
    /\ got = None
    /\ err = FALSE
    /\ messageTypeMap = messageTypeMapLiteral

\* got, err := marshal(&tt.field)
TestMarshal(v) ==
    /\ op = "init"
    /\ op' = "Marshal"
    /\ typ' = v[2][1]
    /\ val' = v
    /\ wire' = Marshal(v)
    /\ got' = None
    /\ err' = FALSE
    /\ UNCHANGED messageTypeMap

\* var got T; err := unmarshal([]byte(tt.field), &got), on a document
\* received or on the bytes Marshal has just produced.
TestUnmarshal(n, d) ==
    /\ op \in {"init", "Marshal"}
    /\ op = "Marshal" => n = typ /\ d = wire
    /\ op' = "Unmarshal"
    /\ typ' = n
    /\ wire' = d
    /\ got' = Unmarshal(n, d).val
    /\ err' = Unmarshal(n, d).err
    /\ UNCHANGED val
    /\ UNCHANGED messageTypeMap

(***************************************************************************)
(* Document URIs.  A path is a sequence of pieces: the separator "/", a    *)
(* space, a percent sign, and runs of other characters.  A URI is the      *)
(* scheme prefix followed by pieces, with percent escapes for the space    *)
(* and the percent sign.                                                   *)
(***************************************************************************)
\* Longest path a URI is constructed from, in pieces.
MaxPath == 5

PathPieces == {"/", "Users", " ", "%"}

\* The path of wantTypeNilAll, with its doubled leading slash, and the path
\* of wantType.
rootPathDoubled ==
    << "/", "/", "Users", "/", "zchee", "/", "go", "/", "src", "/",
       "go", ".", "lsp", ".", "dev", "/", "protocol" >>

rootPathSingle == Tail(rootPathDoubled)

\* A path from the root: one leading separator, no empty component and no
\* trailing separator.
IsRooted(p) ==
    /\ Len(p) >= 2
    /\ p[1] = "/"
    /\ p[Len(p)] # "/"
    /\ \A i \in 1..(Len(p) - 1) : ~(p[i] = "/" /\ p[i + 1] = "/")

\* The paths a URI is constructed from: the paths from the root, and the
\* same paths written with a doubled leading separator.
Paths ==
    {p \in SeqsUpTo(PathPieces, MaxPath) : IsRooted(p)}
    \cup {<< "/" >> \o p : p \in {q \in SeqsUpTo(PathPieces, MaxPath - 1) : IsRooted(q)}}
    \cup {rootPathDoubled, rootPathSingle}

RECURSIVE JoinPieces(_)
\* The string a sequence of pieces spells.
JoinPieces(p) == IF p = << >> THEN "" ELSE p[1] \o JoinPieces(Tail(p))

\* A doubled leading separator is taken for a single one:
\* uri.File("//Users/zchee/go/src/go.lsp.dev/protocol") is the URI of
\* /Users/zchee/go/src/go.lsp.dev/protocol.
TrimLeading(p) ==
    IF Len(p) >= 2 /\ p[1] = "/" /\ p[2] = "/" THEN Tail(p) ELSE p

\* Percent-encoding of a piece of a path, and its inverse.
Escape(c) == CASE c = " " -> "%20" [] c = "%" -> "%25" [] OTHER -> c

Unescape(c) == CASE c = "%20" -> " " [] c = "%25" -> "%" [] OTHER -> c

\* uri.File keeping the path as it is written.
File_verbatim(p) == << "file://" >> \o p

\* uri.File without percent-encoding.
File_unescaped(p) == << "file://" >> \o TrimLeading(p)

\* uri.File(path): the file scheme followed by the percent-encoded path.
File(p) ==
    << "file://" >> \o [i \in 1..Len(TrimLeading(p)) |-> Escape(TrimLeading(p)[i])]

\* A URI string has a scheme and a path: the file scheme, then a path from
\* the root in which a percent sign starts an escape.
IsFileURI(u) ==
    /\ Len(u) >= 2
    /\ u[1] = "file://"
    /\ u[2] = "/"
    /\ \A i \in 2..Len(u) : u[i] \notin {"%", " ", "file://"}

\* URI.Filename(): the path of a file URI, or the error for a string that
\* is not one.
Filename(u) ==
    IF IsFileURI(u)
    THEN [val |-> [i \in 1..(Len(u) - 1) |-> Unescape(u[i + 1])], err |-> FALSE]
    ELSE [val |-> << >>, err |-> TRUE]

\* Strings that are handed over as URIs without having been constructed
\* from a path.
ReceivedURIs ==
    {<< >>, << "Users" >>, << "/", "Users" >>, << "file://" >>,
     << "file://", "Users" >>, << "file://", "/", "%" >>,
     << "file://", "/", "Users", "%20", "Users" >>}

\* u := uri.File(path)
TestFile(p) ==
    /\ op = "init"
    /\ op' = "File"
    /\ typ' = "URI"
    /\ val' = << "path", p >>
    /\ wire' = << "uri", File(p) >>
    /\ got' = None
    /\ err' = FALSE
    /\ UNCHANGED messageTypeMap

\* u.Filename(), of the URI just constructed
TestFilename ==
    /\ op = "File"
    /\ op' = "Filename"
    /\ got' = << "path", Filename(wire[2]).val >>
    /\ err' = Filename(wire[2]).err
    /\ UNCHANGED << typ, val, wire >>
    /\ UNCHANGED messageTypeMap

\* URI(s).Filename(), of a string received
TestFilenameOf(u) ==
    /\ op = "init"
    /\ op' = "Filename"
    /\ typ' = "URI"
    /\ val' = None
    /\ wire' = << "uri", u >>
    /\ got' = << "path", Filename(u).val >>
    /\ err' = Filename(u).err
    /\ UNCHANGED messageTypeMap

\* uri.File of the two folder paths of testWorkspaceFolders.
wantProtocolURI == "file:///Users/zchee/go/src/go.lsp.dev/protocol"

wantJsonrpc2URI == "file:///Users/zchee/go/src/go.lsp.dev/jsonrpc2"

\* WorkspaceFolder{URI: u, Name: n}
Folder(u, n) == GStruct("WorkspaceFolder", << GStr(u), GStr(n) >>)

FolderDoc(u, n) == JObj(<< << "uri", JStr(u) >>, << "name", JStr(n) >> >>)

testWorkspaceFolders_wantType ==
    GSlice(<< Folder(wantProtocolURI, "protocol"), Folder(wantJsonrpc2URI, "jsonrpc2") >>)

testWorkspaceFolders_want ==
    JArr(<< FolderDoc(wantProtocolURI, "protocol"), FolderDoc(wantJsonrpc2URI, "jsonrpc2") >>)

\* The lists of workspace folders encoded: the nil list and every list of
\* up to MaxLen folders whose URI and name are empty or one of the tests'.
FolderLists ==
    {GNil} \cup
    {GSlice(x) :
        x \in SeqsUpTo({Folder(u, n) : u \in {"", wantProtocolURI, wantJsonrpc2URI},
                                      n \in {"", "protocol", "jsonrpc2"}}, MaxLen)}

\* The documents decoded into a list of workspace folders: the tests'
\* document, the same with an element's keys swapped, repeated or
\* extended, with an element of another kind, and documents of another kind.
FolderDocuments ==
    {testWorkspaceFolders_want, JNull, JArr(<< >>), JStr("x"),
     FolderDoc(wantProtocolURI, "protocol"),
     JArr(<< JObj(<< << "name", JStr("protocol") >>, << "uri", JStr(wantProtocolURI) >> >>),
             FolderDoc(wantJsonrpc2URI, "jsonrpc2") >>),
     JArr(<< JObj(<< << "uri", JStr(wantProtocolURI) >>, << "index", JNum(1) >>,
                     << "name", JStr("protocol") >> >>) >>),
     JArr(<< FolderDoc(wantProtocolURI, "protocol"), JNull >>),
     JArr(<< JNum(1), FolderDoc(wantJsonrpc2URI, "jsonrpc2") >>),
     JArr(<< JObj(<< << "uri", JNum(1) >>, << "name", JStr("protocol") >> >>) >>)}

\* var got WorkspaceFolders; unmarshal(data, &got)
UnmarshalFolders(j) == decodeValue(TSlice("WorkspaceFolder"), j, GNil)

\* got, err := marshal(&tt.field) with tt.field of type WorkspaceFolders
TestMarshalFolders(v) ==
    /\ op = "init"
    /\ op' = "MarshalFolders"
    /\ typ' = "WorkspaceFolders"
    /\ val' = v
    /\ wire' = Marshal(v)
    /\ got' = None
    /\ err' = FALSE
    /\ UNCHANGED messageTypeMap

\* var got WorkspaceFolders; err := unmarshal([]byte(tt.field), &got), on a
\* document received or on the bytes Marshal has just produced.
TestUnmarshalFolders(d) ==
    /\ op \in {"init", "MarshalFolders"}
    /\ op = "MarshalFolders" => d = wire
    /\ op' = "UnmarshalFolders"
    /\ typ' = "WorkspaceFolders"
    /\ wire' = d
    /\ got' = UnmarshalFolders(d).val
    /\ err' = UnmarshalFolders(d).err
    /\ UNCHANGED val
    /\ UNCHANGED messageTypeMap

\* Largest magnitude of an enumeration value rendered.
MaxEnum == 120

\* The enumerations with a String method.
Stringers == {"MessageType", "TextDocumentSyncKind", "PrepareSupportDefaultBehavior"}

\* got := tt.k.String()
TestString(t, n) ==
    /\ op = "init"
    /\ op' = "String"
    /\ typ' = t
    /\ val' = GFloat(n)
    /\ got' = GStr(String(t, n))
    /\ UNCHANGED << wire, err >>
    /\ UNCHANGED messageTypeMap

\* Enabled taking the level 0 for a level.
Enabled_nonNegative(m, level) == level >= 0 /\ m >= level

\* Enabled without the test that the level is positive.
Enabled_anyLevel(m, level) == m >= level

\* func (m MessageType) Enabled(level MessageType) bool
Enabled(m, level) == level > 0 /\ m >= level

\* ToMessageType looking the name up and, failing that, reading it as the
\* number of a member.
ToMessageType_digits(level) ==
    [mt |-> CASE level \in DOMAIN messageTypeMap -> messageTypeMap[level]
              [] level = "1" -> MessageTypeError
              [] level = "2" -> MessageTypeWarning
              [] level = "3" -> MessageTypeInfo
              [] level = "4" -> MessageTypeLog
              [] OTHER -> 0,
     messageTypeMap |-> messageTypeMap]

\* ToMessageType remembering a name it did not find.
ToMessageType_memoising(level) ==
    [mt |-> IF level \in DOMAIN messageTypeMap THEN messageTypeMap[level] ELSE 0,
     messageTypeMap |->
        [name \in DOMAIN messageTypeMap \cup {level} |->
            IF name \in DOMAIN messageTypeMap THEN messageTypeMap[name] ELSE 0]]

\* func ToMessageType(level string) MessageType: the value returned and
\* the name table the call leaves.
ToMessageType(level) ==
    [mt |-> IF level \in DOMAIN messageTypeMap THEN messageTypeMap[level] ELSE 0,
     messageTypeMap |-> messageTypeMap]

\* The receivers and levels Enabled is called with.
Levels == ((-3)..7) \cup {99}

\* The names ToMessageType is called with: the four names, the empty
\* string, names in another letter case, digits, and other words.
LevelNames ==
    {"error", "warning", "info", "log", "", "Error", "ERROR", "Warning", "Info",
     "Log", "LOG", "0", "1", "2", "3", "4", "5", "-1", "debug", "warn", "trace",
     "errors", "information"}

\* m.Enabled(level)
TestEnabled(m, level) ==
    /\ op = "init"
    /\ op' = "Enabled"
    /\ typ' = "MessageType"
    /\ val' = GFloat(m)
    /\ wire' = << "level", level >>
    /\ got' = GBool(Enabled(m, level))
    /\ UNCHANGED << err, messageTypeMap >>

\* ToMessageType(level), on a name given or on the text m.String() has
\* just returned for the m in val.
TestToMessageType(level) ==
    /\ op \in {"init", "String"}
    /\ op = "String" => typ = "MessageType" /\ level = got[2]
    /\ op' = "ToMessageType"
    /\ typ' = "MessageType"
    /\ wire' = << "name", level >>
    /\ got' = GFloat(ToMessageType(level).mt)
    /\ messageTypeMap' = ToMessageType(level).messageTypeMap
    /\ UNCHANGED << val, err >>

\* m.Enabled(ToMessageType(level)), the level being the one just obtained.
TestEnabledLevel(m) ==
    /\ op = "ToMessageType"
    /\ op' = "Enabled"
    /\ val' = GFloat(m)
    /\ got' = GBool(Enabled(m, got[2]))
    /\ UNCHANGED << typ, wire, err, messageTypeMap >>

Next ==
    \/ /\ op = "init"
       /\ \/ \E n \in Types : \E v \in AllValues[n] : TestMarshal(v)
          \/ \E n \in Types : \E d \in AllDocuments[n] : TestUnmarshal(n, d)
          \/ \E t \in Stringers : \E n \in (-MaxEnum)..MaxEnum : TestString(t, n)
          \/ \E p \in Paths : TestFile(p)
          \/ \E u \in ReceivedURIs : TestFilenameOf(u)
          \/ \E v \in FolderLists : TestMarshalFolders(v)
          \/ \E d \in FolderDocuments : TestUnmarshalFolders(d)
          \/ \E m \in Levels : \E level \in Levels : TestEnabled(m, level)
          \/ \E level \in LevelNames : TestToMessageType(level)
    \/ /\ op = "Marshal"
       /\ TestUnmarshal(typ, wire)
    \/ /\ op = "MarshalFolders"
       /\ TestUnmarshalFolders(wire)
    \/ TestFilename
    \/ /\ op = "String"
       /\ typ = "MessageType"
       /\ TestToMessageType(got[2])
    \/ /\ op = "ToMessageType"
       /\ \E m \in Levels : TestEnabledLevel(m)

Spec == Init /\ [][Next]_vars

(***************************************************************************)
(* Concurrent callers.  Each goroutine owns its arguments, its destination *)
(* and its results; messageTypeMap is the only package-level variable.  A  *)
(* call is split at the point where it reads package-level state: the      *)
(* caller binds its arguments, other goroutines run, then the call         *)
(* computes its result from the state it finds.                            *)
(***************************************************************************)
Procs == {1, 2}

Idle == << "idle", "idle" >>

Called(kind) == << kind, "called" >>

Returned(kind) == << kind, "returned" >>

\* The calls a goroutine makes: kind, structure or enumeration type,
\* argument value and argument document or string.
ConcurrentCalls ==
    {[kind |-> "Marshal", typ |-> "ClientInfo", val |-> v, wire |-> NoDoc] :
        v \in {Zero(TStruct("ClientInfo")), Full("ClientInfo")}}
    \cup
    {[kind |-> "Unmarshal", typ |-> "ClientInfo", val |-> None, wire |-> d] :
        d \in {Marshal(Full("ClientInfo")), JNull, JStr("x")}}
    \cup
    {[kind |-> "String", typ |-> "MessageType", val |-> GFloat(n), wire |-> NoDoc] :
        n \in {1, 5}}
    \cup
    {[kind |-> "Enabled", typ |-> "MessageType", val |-> GFloat(m),
      wire |-> << "level", level >>] :
        m \in {1, 4}, level \in {0, 3}}
    \cup
    {[kind |-> "ToMessageType", typ |-> "MessageType", val |-> None,
      wire |-> << "name", level >>] :
        level \in {"error", "log", "debug", "Error"}}

InitConcurrent ==
    /\ op = [p \in Procs |-> Idle]
    /\ typ = [p \in Procs |-> "none"]
    /\ val = [p \in Procs |-> None]
    /\ wire = [p \in Procs |-> NoDoc]
    /\ got = [p \in Procs |-> None]
    /\ err = [p \in Procs |-> FALSE]
    /\ messageTypeMap = messageTypeMapLiteral

\* A goroutine that is not inside a call starts one on values of its own.
Begin(p, c) ==
    /\ op[p][2] # "called"
    /\ op' = [op EXCEPT ![p] = Called(c.kind)]
    /\ typ' = [typ EXCEPT ![p] = c.typ]
    /\ val' = [val EXCEPT ![p] = c.val]
    /\ wire' = [wire EXCEPT ![p] = c.wire]
    /\ got' = [got EXCEPT ![p] = None]
    /\ err' = [err EXCEPT ![p] = FALSE]
    /\ UNCHANGED messageTypeMap

\* got, err := marshal(&tt.field)
ReturnMarshal(p) ==
    /\ op[p] = Called("Marshal")
    /\ op' = [op EXCEPT ![p] = Returned("Marshal")]
    /\ wire' = [wire EXCEPT ![p] = Marshal(val[p])]
    /\ UNCHANGED << typ, val, got, err, messageTypeMap >>

\* err := unmarshal([]byte(tt.field), &got)
ReturnUnmarshal(p) ==
    /\ op[p] = Called("Unmarshal")
    /\ op' = [op EXCEPT ![p] = Returned("Unmarshal")]
    /\ got' = [got EXCEPT ![p] = Unmarshal(typ[p], wire[p]).val]
    /\ err' = [err EXCEPT ![p] = Unmarshal(typ[p], wire[p]).err]
    /\ UNCHANGED << typ, val, wire, messageTypeMap >>

\* tt.m.String()
ReturnString(p) ==
    /\ op[p] = Called("String")
    /\ op' = [op EXCEPT ![p] = Returned("String")]
    /\ got' = [got EXCEPT ![p] = GStr(String(typ[p], val[p][2]))]
    /\ UNCHANGED << typ, val, wire, err, messageTypeMap >>

\* tt.m.Enabled(tt.level)
ReturnEnabled(p) ==
    /\ op[p] = Called("Enabled")
    /\ op' = [op EXCEPT ![p] = Returned("Enabled")]
    /\ got' = [got EXCEPT ![p] = GBool(Enabled(val[p][2], wire[p][2]))]
    /\ UNCHANGED << typ, val, wire, err, messageTypeMap >>

\* ToMessageType(tt.level): the lookup reads messageTypeMap as it is now.
ReturnToMessageType(p) ==
    /\ op[p] = Called("ToMessageType")
    /\ op' = [op EXCEPT ![p] = Returned("ToMessageType")]
    /\ got' = [got EXCEPT ![p] = GFloat(ToMessageType(wire[p][2]).mt)]
    /\ messageTypeMap' = ToMessageType(wire[p][2]).messageTypeMap
    /\ UNCHANGED << typ, val, wire, err >>

NextConcurrent ==
    \E p \in Procs :
        \/ \E c \in ConcurrentCalls : Begin(p, c)
        \/ ReturnMarshal(p)
        \/ ReturnUnmarshal(p)
        \/ ReturnString(p)
        \/ ReturnEnabled(p)
        \/ ReturnToMessageType(p)

SpecConcurrent == InitConcurrent /\ [][NextConcurrent]_vars

(***************************************************************************)
(* Reading documents and values.                                           *)
(***************************************************************************)
Keys(d) == [i \in 1..Len(d[2]) |-> d[2][i][1]]

HasKey(d, key) == \E i \in 1..Len(d[2]) : d[2][i][1] = key

Occurrences(d, key) == Cardinality({i \in 1..Len(d[2]) : d[2][i][1] = key})

SeqRange(q) == {q[i] : i \in 1..Len(q)}

\* The value of the last member with the key.
Member(d, key) == d[2][LastIndex(d[2], key)][2]

DeclaredKeys(n) == [i \in 1..Len(Schema(n)) |-> Schema(n)[i].key]

FieldNo(n, key) == CHOOSE i \in 1..Len(Schema(n)) : Schema(n)[i].key = key

\* The value of the field with the key in a structure value.
Field(v, key) == v[2][2][FieldNo(v[2][1], key)]

\* The number of members of a document that are stored into the field.
Stored(n, d, key) ==
    Cardinality({i \in 1..Len(d[2]) : FieldIndex(Schema(n), d[2][i][1]) = FieldNo(n, key)})

\* The bytes decoded are the ones Marshal produced from val.
RoundTripped == op = "Unmarshal" /\ val[1] = "struct"

RECURSIVE IsPopulated(_, _), OptionalsPopulated(_)
\* A field holds a meaningful, non-zero value.
IsPopulated(ty, v) ==
    CASE ty.k = "bool" -> v[2] = TRUE
      [] ty.k = "string" -> v[2] # ""
      [] ty.k \in {"float64", "int32", "uint32"} -> v[2] # 0
      [] ty.k = "struct" -> OptionalsPopulated(v)
      [] ty.k = "ptr" -> v[1] = "ptr" /\ OptionalsPopulated(v[2])
      [] ty.k = "slice" -> v[1] = "slice" /\ Len(v[2]) > 0
      [] ty.k = "token" -> v[1] = "ptr"
      [] ty.k = "interface" ->
            CASE v[1] = "nil" -> FALSE
              [] v[1] = "bool" -> v[2] = TRUE
              [] v[1] = "string" -> v[2] # ""
              [] v[1] \in NumTags -> v[2] # 0
              [] v[1] = "ptr" -> OptionalsPopulated(v[2])
              [] OTHER -> TRUE

\* Every optional field of a structure value, and of the structures it
\* holds, is populated.
OptionalsPopulated(v) ==
    \A i \in 1..Len(Schema(v[2][1])) :
        LET f == Schema(v[2][1])[i]
        IN  IF f.omitempty
            THEN IsPopulated(f.ty, v[2][2][i])
            ELSE f.ty.k = "struct" => OptionalsPopulated(v[2][2][i])

RECURSIVE OptionalsZero(_)
\* Every optional field of a structure value, and of the structures its
\* required fields hold, is left at its zero value.
OptionalsZero(v) ==
    \A i \in 1..Len(Schema(v[2][1])) :
        LET f == Schema(v[2][1])[i]
        IN  IF f.omitempty
            THEN v[2][2][i] = Zero(f.ty)
            ELSE f.ty.k = "struct" => OptionalsZero(v[2][2][i])

RECURSIVE InterfacesDecodable(_)
\* Every interface{} field holds a value of a type the decoder itself
\* stores for a JSON scalar: bool, float64 or string.
InterfacesDecodable(v) ==
    \A i \in 1..Len(Schema(v[2][1])) :
        LET f == Schema(v[2][1])[i]
            x == v[2][2][i]
        IN  CASE f.ty.k = "interface" -> x[1] \in {"nil", "bool", "float64", "string"}
              [] f.ty.k = "struct" -> InterfacesDecodable(x)
              [] f.ty.k = "ptr" -> x[1] = "ptr" => InterfacesDecodable(x[2])
              [] OTHER -> TRUE

(***************************************************************************)
(* C1  Round trip of fully populated values.                               *)
(***************************************************************************)
\* C1 as stated: whenever a value with every optional field populated has
\* been encoded and the encoding decoded, no error is returned and the
\* decoded value equals the value encoded.
C1_PopulatedRoundTrip_AsStated ==
    RoundTripped /\ OptionalsPopulated(val) => ~err /\ got = val

\* C1 amended: the round trip returns the value encoded when, in addition,
\* every interface{} field holds a bool, a float64 or a string; an options
\* structure, a named number or an int stored in an interface{} field comes
\* back as a map or a float64.
C1_PopulatedRoundTrip ==
    RoundTripped /\ OptionalsPopulated(val) /\ InterfacesDecodable(val) => ~err /\ got = val

C1_Witness ==
    /\ RoundTripped
    /\ typ = "ServerCapabilities"
    /\ OptionalsPopulated(val)
    /\ InterfacesDecodable(val)
    /\ Field(val, "textDocumentSync") = GFloat(1)
    /\ got = val

(***************************************************************************)
(* C2  Round trip of values whose optional fields are all zero.            *)
(***************************************************************************)
\* C2: whenever a value with every optional field at its zero value has
\* been encoded and the encoding decoded, no error is returned and the
\* decoded value equals the value encoded.
C2_ZeroRoundTrip ==
    RoundTripped /\ OptionalsZero(val) => ~err /\ got = val

C2_Witness ==
    /\ RoundTripped
    /\ typ = "InitializeResult"
    /\ val = Zero(TStruct("InitializeResult"))
    /\ wire = testInitializeResult_wantNil
    /\ got = val

(***************************************************************************)
(* C3, C4  Trace values outside the defined literals.                      *)
(***************************************************************************)
\* The fields of the closed string enumeration TraceValue.
TraceFields ==
    {<< "SetTraceParams", "value" >>, << "LogTraceParams", "verbose" >>,
     << "InitializeParams", "trace" >>}

\* The document decoded gives a trace field a string that is no member.
UnknownTraceLiteral(n, key) ==
    /\ op = "Unmarshal"
    /\ typ = n
    /\ wire[1] = "object"
    /\ Occurrences(wire, key) = 1
    /\ Stored(n, wire, key) = 1
    /\ Member(wire, key)[1] = "string"
    /\ Member(wire, key)[2] \notin TraceValues

\* C3 as stated: decoding a string that is not a member of the closed
\* enumeration returns a decode error.
C3_UnknownLiteralRejected_AsStated ==
    \A f \in TraceFields : UnknownTraceLiteral(f[1], f[2]) => err

\* The document with the value of the member with the key replaced.
WithMember(d, key, x) ==
    JObj([i \in 1..Len(d[2]) |-> IF d[2][i][1] = key THEN << key, x >> ELSE d[2][i]])

\* C3 amended: a string that is not a member of the enumeration causes no
\* decode error (an error is returned exactly when it is with a member in
\* its place, and none for {"value":"invalid"}), and when no error is
\* returned the field holds the string received, which is no member.
C3_UnknownLiteralStored ==
    \A f \in TraceFields :
        UnknownTraceLiteral(f[1], f[2]) =>
            /\ err = Unmarshal(typ, WithMember(wire, f[2], JStr(TraceVerbose))).err
            /\ ~err => /\ Field(got, f[2]) = GStr(Member(wire, f[2])[2])
                       /\ Field(got, f[2])[2] \notin TraceValues
            /\ wire = testSetTraceParams_wantInvalid => ~err

C3_Witness ==
    /\ UnknownTraceLiteral("SetTraceParams", "value")
    /\ wire = testSetTraceParams_wantInvalid
    /\ ~err
    /\ Field(got, "value") = GStr("invalid")

\* C4: decoding {"value":"invalid"} into SetTraceParams returns no error
\* and a value different from SetTraceParams{Value: TraceVerbose};
\* decoding {"value":"verbose"} yields exactly that value.
C4_SetTraceParamsUnmarshal ==
    op = "Unmarshal" /\ typ = "SetTraceParams" =>
        /\ wire = testSetTraceParams_wantInvalid =>
              ~err /\ got # testSetTraceParams_wantType
        /\ wire = testSetTraceParams_want =>
              ~err /\ got = testSetTraceParams_wantType

C4_Witness ==
    /\ op = "Unmarshal"
    /\ typ = "SetTraceParams"
    /\ wire = testSetTraceParams_wantInvalid
    /\ val = None
    /\ got # testSetTraceParams_wantType

(***************************************************************************)
(* C5  One wire form per polymorphic provider field.                       *)
(***************************************************************************)
ProviderFields == {"textDocumentSync", "hoverProvider", "selectionRangeProvider"}

\* C5: in the encoding of a ServerCapabilities value each provider field
\* appears at most once; a field set to true is the JSON true, a field set
\* to an options structure is a JSON object, and an unset field is absent.
C5_OneWireForm ==
    op = "Marshal" /\ typ = "ServerCapabilities" =>
        \A key \in ProviderFields :
            LET x == Field(val, key)
            IN  /\ Occurrences(wire, key) <= 1
                /\ x[1] = "nil" => ~HasKey(wire, key)
                /\ x[1] = "bool" /\ x[2] = TRUE =>
                      HasKey(wire, key) /\ Member(wire, key) = JBool(TRUE)
                /\ x[1] = "ptr" =>
                      HasKey(wire, key) /\ Member(wire, key)[1] = "object"

C5_Witness ==
    /\ op = "Marshal"
    /\ typ = "ServerCapabilities"
    /\ Field(val, "hoverProvider") = GPtr(Full("HoverOptions"))
    /\ Field(val, "selectionRangeProvider") = GBool(TRUE)
    /\ Field(val, "textDocumentSync")[1] = "nil"
    /\ Member(wire, "hoverProvider") = JObj(<< << "workDoneProgress", JBool(TRUE) >> >>)
    /\ Member(wire, "selectionRangeProvider") = JBool(TRUE)
    /\ ~HasKey(wire, "textDocumentSync")

(***************************************************************************)
(* C6  Decoding a polymorphic capability field by JSON kind.               *)
(***************************************************************************)
\* What decoding stores for a member of the kinds C6 names, but for an
\* object; re-encoding the decoded value emits the kind received.
DecodedByKind(key) ==
    LET g == Field(got, key)
        m == Member(wire, key)
    IN  /\ m[1] = "bool" => g = GBool(m[2])
        /\ m[1] = "number" => g = GFloat(m[2])
        /\ m[1] = "string" => g = GStr(m[2])
        /\ m[1] \in {"bool", "number", "string", "object", "array"} =>
              /\ HasKey(Marshal(got), key)
              /\ Member(Marshal(got), key)[1] = m[1]

\* C6 as stated: a boolean decodes to a boolean, a number to a number, an
\* object to the options value, an absent key to nil, and re-encoding
\* emits the kind received.
C6_DecodeByKind_AsStated ==
    op = "Unmarshal" /\ typ = "ServerCapabilities" /\ wire[1] = "object" =>
        \A key \in ProviderFields :
            IF ~HasKey(wire, key)
            THEN Field(got, key)[1] = "nil"
            ELSE /\ DecodedByKind(key)
                 /\ Member(wire, key)[1] = "object" => Field(got, key)[1] \in {"ptr", "struct"}

\* C6 amended: as stated, except that a JSON object decodes to a map from
\* the object's keys to their decoded values, not to the options structure.
C6_DecodeByKind ==
    op = "Unmarshal" /\ typ = "ServerCapabilities" /\ wire[1] = "object" =>
        \A key \in ProviderFields :
            IF ~HasKey(wire, key)
            THEN Field(got, key)[1] = "nil"
            ELSE /\ DecodedByKind(key)
                 /\ Member(wire, key)[1] = "object" =>
                       /\ Field(got, key)[1] = "map[string]interface{}"
                       /\ DOMAIN Field(got, key)[2] = {m[1] : m \in SeqRange(Member(wire, key)[2])}

C6_Witness ==
    /\ op = "Unmarshal"
    /\ typ = "ServerCapabilities"
    /\ wire[1] = "object"
    /\ HasKey(wire, "textDocumentSync")
    /\ HasKey(wire, "hoverProvider")
    /\ ~HasKey(wire, "selectionRangeProvider")
    /\ Member(wire, "textDocumentSync") = JNum(1)
    /\ Member(wire, "hoverProvider") = JObj(<< << "workDoneProgress", JBool(TRUE) >> >>)
    /\ Field(got, "textDocumentSync") = GFloat(1)
    /\ Field(got, "hoverProvider")[1] = "map[string]interface{}"
    /\ Field(got, "selectionRangeProvider")[1] = "nil"

(***************************************************************************)
(* C7  Omission of optional zero fields.                                   *)
(***************************************************************************)
\* A field holds its zero or empty value.
ZeroOrEmpty(ty, v) == v = Zero(ty) \/ (v[1] = "slice" /\ Len(v[2]) = 0)

RECURSIVE OmittedIffOptionalZero(_, _)
\* In the object d of structure value v, and in the objects of the
\* structures v holds, a key is absent exactly for an optional field that
\* holds its zero or empty value.
OmittedIffOptionalZero(v, d) ==
    /\ d[1] = "object"
    /\ \A i \in 1..Len(Schema(v[2][1])) :
          LET f == Schema(v[2][1])[i]
              x == v[2][2][i]
          IN  /\ HasKey(d, f.key) <=> ~(f.omitempty /\ ZeroOrEmpty(f.ty, x))
              /\ f.ty.k = "struct" => OmittedIffOptionalZero(x, Member(d, f.key))
              /\ f.ty.k = "ptr" /\ x[1] = "ptr" => OmittedIffOptionalZero(x[2], Member(d, f.key))

\* C7: on encode a key is absent if and only if its field is optional and
\* zero or empty; ClientInfo without a version is {"name":"testClient"} and
\* InitializeResult{} is {"capabilities":{}}.  Not so for the optional
\* options of a FileOperationPattern, a struct held by value: the encoder
\* never takes a struct for empty and emits "options":{}.
C7_OmitIffOptionalZero ==
    op = "Marshal" =>
        /\ OmittedIffOptionalZero(val, wire)
        /\ val = GStruct("ClientInfo", << GStr("testClient"), GStr("") >>) =>
              wire = testClientInfo_wantNilAll
        /\ val = Full("ClientInfo") => wire = testClientInfo_want
        /\ val = Zero(TStruct("InitializeResult")) => wire = testInitializeResult_wantNil

(***************************************************************************)
(* C8  An empty document selector.                                         *)
(***************************************************************************)
RegistrationOptions ==
    {"DeclarationRegistrationOptions", "DocumentColorRegistrationOptions",
     "DocumentLinkRegistrationOptions"}

EmptySelectorEncoded ==
    /\ val[1] = "struct"
    /\ typ \in RegistrationOptions
    /\ Field(val, "documentSelector") = GSlice(<< >>)

\* C8: an empty document selector is encoded as "documentSelector":[],
\* never omitted, and decoding it gives the empty selector back;
\* {"documentSelector":[]} decodes to the value with the empty selector.
C8_EmptySelector ==
    /\ EmptySelectorEncoded =>
          /\ Occurrences(wire, "documentSelector") = 1
          /\ Member(wire, "documentSelector") = JArr(<< >>)
    /\ EmptySelectorEncoded /\ RoundTripped =>
          ~err /\ Field(got, "documentSelector") = GSlice(<< >>)
    /\ op = "Unmarshal" /\ typ = "DocumentLinkRegistrationOptions"
       /\ wire = testDocumentLinkRegistrationOptions_wantNil =>
          ~err /\ got = testDocumentLinkRegistrationOptions_wantTypeNilAll

C8_Witness ==
    /\ RoundTripped
    /\ val = testDocumentLinkRegistrationOptions_wantTypeNilAll
    /\ wire = testDocumentLinkRegistrationOptions_wantNil
    /\ got = val

(***************************************************************************)
(* C9  Key order.                                                          *)
(***************************************************************************)
\* C9: the keys of an encoded object are in the declaration order of the
\* fields, embedded blocks flattened where they are embedded.
C9_KeyOrder ==
    op = "Marshal" =>
        /\ Keys(wire) = SelectSeq(DeclaredKeys(typ), LAMBDA key : HasKey(wire, key))
        /\ val = Full("DeclarationRegistrationOptions") =>
              /\ Keys(wire) = << "workDoneProgress", "documentSelector", "id" >>
              /\ wire = testDeclarationRegistrationOptions_want
        /\ val = Full("DocumentColorRegistrationOptions") =>
              /\ Keys(wire) = << "documentSelector", "id", "workDoneProgress" >>
              /\ wire = testDocumentColorRegistrationOptions_want
        /\ val = Full("ReferencesParams") =>
              /\ Keys(wire) = << "textDocument", "position", "workDoneToken",
                                 "partialResultToken", "context" >>
              /\ wire = testReferencesParams_want
        /\ typ = "InitializeParams" /\ HasKey(wire, "workDoneToken") =>
              Keys(wire)[1] = "workDoneToken"

C9_Witness ==
    /\ op = "Marshal"
    /\ val = Full("ReferencesParams")
    /\ wire = testReferencesParams_want

(***************************************************************************)
(* C10  Unknown keys.                                                      *)
(***************************************************************************)
\* The document without the top-level members whose key is not, letter for
\* letter, a key of the structure.
WithoutUndeclaredKeys(n, d) ==
    JObj(SelectSeq(d[2], LAMBDA m : \E i \in 1..Len(Schema(n)) : Schema(n)[i].key = m[1]))

\* The document without the top-level members whose key matches no key of
\* the structure, not even case-insensitively.
WithoutUnknownKeys(n, d) ==
    JObj(SelectSeq(d[2], LAMBDA m : FieldIndex(Schema(n), m[1]) # 0))

\* C10 as stated: a document and the same document without the keys the
\* structure does not declare decode to equal values with the same outcome.
C10_UnknownKeysIgnored_AsStated ==
    op = "Unmarshal" /\ wire[1] = "object" =>
        /\ got = Unmarshal(typ, WithoutUndeclaredKeys(typ, wire)).val
        /\ err = Unmarshal(typ, WithoutUndeclaredKeys(typ, wire)).err

\* C10 amended: a document and the same document without the keys that
\* match no declared key even case-insensitively decode to equal values
\* with the same outcome; a key that differs from a declared key only in
\* letter case is stored into that key's field.
C10_UnknownKeysIgnored ==
    op = "Unmarshal" /\ wire[1] = "object" =>
        /\ got = Unmarshal(typ, WithoutUnknownKeys(typ, wire)).val
        /\ err = Unmarshal(typ, WithoutUnknownKeys(typ, wire)).err

C10_Witness ==
    /\ op = "Unmarshal"
    /\ typ = "ClientInfo"
    /\ wire = JObj(<< << "unknownKey", JObj(<< << "unknownKey", JNum(1) >> >>) >>,
                      << "name", JStr("testClient") >>,
                      << "version", JStr("v0.0.0") >> >>)
    /\ ~err
    /\ got = Full("ClientInfo")

(***************************************************************************)
(* C11  Missing keys.                                                      *)
(***************************************************************************)
\* The document with a member added at its end that gives the i-th field
\* of the structure the encoding of its zero value.
WithZeroMember(n, d, i) ==
    JObj(Append(d[2], << Schema(n)[i].key, Marshal(Zero(Schema(n)[i].ty)) >>))

\* C11: when the document decoded has no member for a field of the
\* structure, required or optional, the field is left at its zero value and
\* the missing key is no error: the value decoded and the outcome are those
\* of the document that holds the zero value under the key.  The document
\* of the test without its optional keys decodes with no error, and an
\* object without the required uri decodes to the zero identifier.
C11_MissingKeyZero ==
    op = "Unmarshal" /\ wire[1] = "object" =>
        /\ \A i \in 1..Len(Schema(typ)) :
              Stored(typ, wire, Schema(typ)[i].key) = 0 =>
                  /\ got[2][2][i] = Zero(Schema(typ)[i].ty)
                  /\ got = Unmarshal(typ, WithZeroMember(typ, wire, i)).val
                  /\ err = Unmarshal(typ, WithZeroMember(typ, wire, i)).err
        /\ wire = JObj(<< >>) => ~err /\ got = Zero(TStruct(typ))
        /\ typ = "DeclarationRegistrationOptions"
           /\ wire = testDeclarationRegistrationOptions_wantNil =>
              /\ ~err
              /\ got = GStruct(typ, << GBool(FALSE), GSlice(<< Full("DocumentFilter") >>),
                                      GStr("") >>)
        /\ typ = "ReferencesParams" /\ Occurrences(wire, "textDocument") = 1
           /\ Stored(typ, wire, "textDocument") = 1
           /\ Member(wire, "textDocument") = JObj(<< >>) =>
              Field(got, "textDocument") = Zero(TStruct("TextDocumentIdentifier"))

C11_Witness ==
    /\ op = "Unmarshal"
    /\ typ = "ReferencesParams"
    /\ wire[1] = "object"
    /\ Stored(typ, wire, "textDocument") = 0
    /\ Stored(typ, wire, "context") = 1
    /\ ~err
    /\ Field(got, "textDocument") = Zero(TStruct("TextDocumentIdentifier"))
    /\ Field(got, "context") = Full("ReferenceContext")
    /\ Field(got, "workDoneToken") = NewProgressToken(wantWorkDoneToken)

(***************************************************************************)
(* C12  Values of the wrong JSON kind.                                     *)
(***************************************************************************)
RECURSIVE WrongKind(_, _, _)
\* Document j, to be stored into a value of type ty, holds under a key the
\* type recognizes (or is itself) a JSON value of a kind the type does not
\* take.  An interface{} value takes every kind, a progress token a number
\* or a string; nullIsWrong says whether null is a wrong kind for a bool,
\* a string, a number and a structure.
WrongKind(ty, j, nullIsWrong) ==
    CASE j[1] = "null" ->
            /\ nullIsWrong
            /\ ty.k \in {"bool", "string", "float64", "int32", "uint32", "struct", "tokenvalue"}
      [] ty.k = "bool" -> j[1] # "bool"
      [] ty.k = "string" -> j[1] # "string"
      [] ty.k \in {"float64", "int32", "uint32"} -> j[1] # "number"
      [] ty.k = "interface" -> FALSE
      [] ty.k \in {"token", "tokenvalue"} -> j[1] \notin {"number", "string"}
      [] ty.k \in {"struct", "ptr"} ->
            \/ j[1] # "object"
            \/ \E i \in 1..Len(j[2]) :
                  LET idx == FieldIndex(Schema(ty.n), j[2][i][1])
                  IN  idx # 0 /\ WrongKind(Schema(ty.n)[idx].ty, j[2][i][2], nullIsWrong)
      [] ty.k = "slice" ->
            \/ j[1] # "array"
            \/ \E i \in 1..Len(j[2]) : WrongKind(ElemType(ty.n), j[2][i], nullIsWrong)

\* C12 as stated: decoding an object in which a recognized key holds a
\* value of the wrong kind, null for a bool, string, number or structure
\* included, returns an error.
C12_WrongKindRejected_AsStated ==
    op = "Unmarshal" /\ wire[1] = "object" /\ WrongKind(TStruct(typ), wire, TRUE) => err

\* C12 amended: decoding an object in which a recognized key holds a value
\* of a wrong kind other than null returns an error; null is taken for
\* every field and leaves a bool, string, number or structure as it is.
C12_WrongKindRejected ==
    /\ op = "Unmarshal" /\ wire[1] = "object" /\ WrongKind(TStruct(typ), wire, FALSE) => err
    /\ op = "Unmarshal" /\ typ = "ClientInfo"
       /\ wire = JObj(<< << "name", JNull >> >>) => ~err /\ got = Zero(TStruct("ClientInfo"))

C12_Witness ==
    /\ op = "Unmarshal"
    /\ typ = "InitializeParams"
    /\ wire[1] = "object"
    /\ Occurrences(wire, "processId") = 1
    /\ Member(wire, "processId") = JStr("x")
    /\ err
    /\ Field(got, "processId") = GInt32(0)
    /\ Field(got, "rootUri") = GStr(ExStr("rootUri"))

(***************************************************************************)
(* C13  No normalisation.                                                  *)
(***************************************************************************)
\* The structures part_000 has a test for.
TestedTypes ==
    Types \ {"WorkDoneProgressCreateParams", "ShowMessageParams", "FileOperationPattern",
             "ShowMessageRequestParams", "LogMessageParams",
             "WorkDoneProgressCancelParams", "Range"}

\* The values the tests expect: a structure with every field populated and
\* one with every field left alone.
Expected(n) == {Full(n), Zero(TStruct(n))}

RECURSIVE NoRepeats(_, _)
\* No field of a structure is given by two members of its object.
NoRepeats(ty, j) ==
    CASE ty.k \in {"struct", "ptr"} /\ j[1] = "object" ->
            \A i \in 1..Len(Schema(ty.n)) :
                LET at == {m \in 1..Len(j[2]) : FieldIndex(Schema(ty.n), j[2][m][1]) = i}
                IN  /\ Cardinality(at) <= 1
                    /\ \A m \in at : NoRepeats(Schema(ty.n)[i].ty, j[2][m][2])
      [] ty.k = "slice" /\ j[1] = "array" ->
            \A i \in 1..Len(j[2]) : NoRepeats(ElemType(ty.n), j[2][i])
      [] OTHER -> TRUE

\* A well-typed document: every recognized key holds a value of the kind
\* of its field, and no field is given twice.
WellTyped(ty, j) == ~WrongKind(ty, j, TRUE) /\ NoRepeats(ty, j)

RECURSIVE Differs(_, _, _)
\* The content of the well-typed document j differs from the value x of
\* type ty: some field of x is given another value by j, or is not given
\* by j and is not zero.
Differs(ty, j, x) ==
    CASE j[1] = "null" -> x # GNil
      [] ty.k \in {"bool", "string", "float64", "int32", "uint32", "interface", "tokenvalue"} ->
            j # encodeValue(x)
      [] ty.k = "token" -> x = GNil \/ j # encodeValue(x)
      [] ty.k = "struct" ->
            \E i \in 1..Len(Schema(ty.n)) :
                LET at == {m \in 1..Len(j[2]) : FieldIndex(Schema(ty.n), j[2][m][1]) = i}
                IN  IF at = {}
                    THEN x[2][2][i] # Zero(Schema(ty.n)[i].ty)
                    ELSE \E m \in at : Differs(Schema(ty.n)[i].ty, j[2][m][2], x[2][2][i])
      [] ty.k = "ptr" -> x = GNil \/ Differs(TStruct(ty.n), j, x[2])
      [] ty.k = "slice" ->
            \/ x = GNil
            \/ Len(j[2]) # Len(x[2])
            \/ \E i \in 1..Len(j[2]) : Differs(ElemType(ty.n), j[2][i], x[2][i])

\* C13: decoding a well-typed document whose content differs from an
\* expected value v returns no error and a value other than v, and the
\* encoding of v does not differ from v; the documents the tests call
\* invalid decode to what they hold (the two tokens of ReferencesParams
\* swapped) and are not what the expected value encodes to.
C13_NoNormalisation ==
    /\ op = "Unmarshal" /\ typ \in TestedTypes /\ wire[1] = "object"
       /\ WellTyped(TStruct(typ), wire) =>
          /\ ~err
          /\ \A v \in Expected(typ) : Differs(TStruct(typ), wire, v) => got # v
    /\ op = "Marshal" /\ val \in Expected(typ) =>
          /\ ~Differs(TStruct(typ), wire, val)
          /\ wire \notin {testSetTraceParams_wantInvalid, testReferencesParams_wantInvalid,
                           testDeclarationRegistrationOptions_wantInvalid}
    /\ op = "Unmarshal" /\ typ = "ReferencesParams"
       /\ wire = testReferencesParams_wantInvalid =>
          /\ ~err
          /\ got # Full("ReferencesParams")
          /\ Field(got, "workDoneToken") = NewProgressToken(wantPartialResultToken)
          /\ Field(got, "partialResultToken") = NewProgressToken(wantWorkDoneToken)
          /\ Field(got, "context") = GStruct("ReferenceContext", << GBool(FALSE) >>)
    /\ op = "Unmarshal" /\ typ = "DeclarationRegistrationOptions"
       /\ wire = testDeclarationRegistrationOptions_wantInvalid =>
          /\ ~err
          /\ got # Full("DeclarationRegistrationOptions")
          /\ Field(got, "id") = GStr("0")

C13_Witness ==
    /\ op = "Unmarshal"
    /\ typ = "ReferencesParams"
    /\ wire = testReferencesParams_wantInvalid
    /\ WellTyped(TStruct(typ), wire)
    /\ Differs(TStruct(typ), wire, Full("ReferencesParams"))
    /\ ~err
    /\ got # Full("ReferencesParams")
    /\ Field(got, "workDoneToken") = NewProgressToken(wantPartialResultToken)

(***************************************************************************)
(* C14  The work-done and partial-result tokens.                           *)
(***************************************************************************)
\* The structures that embed both token blocks.
TokenStructures == {"ReferencesParams", "DocumentHighlightParams"}

TokenKeys == << "workDoneToken", "partialResultToken" >>

\* Structure value v with the field under the key set to x.
WithField(v, key, x) == GStruct(v[2][1], [v[2][2] EXCEPT ![FieldNo(v[2][1], key)] = x])

\* The document without the members stored into the field under the key.
WithoutField(n, d, key) ==
    JObj(SelectSeq(d[2], LAMBDA m : FieldIndex(Schema(n), m[1]) # FieldNo(n, key)))

\* Every member stored into the field under the key is a token or null.
TokenOrNull(n, d, key) ==
    \A i \in 1..Len(d[2]) :
        FieldIndex(Schema(n), d[2][i][1]) = FieldNo(n, key) =>
            d[2][i][2][1] \in {"string", "number", "null"}

\* C14: in a structure that embeds both token blocks the key of a token is
\* in the encoding exactly when the token is set, and its member is the
\* same whatever the other token is; a token key missing from a document
\* decodes to a nil token, and the token decoded is the same whether the
\* document sets the other token or not.
C14_TokensIndependent ==
    \A a \in 1..2 :
        LET key == TokenKeys[a]
            other == TokenKeys[3 - a]
        IN  /\ op = "Marshal" /\ typ \in TokenStructures =>
                  /\ HasKey(wire, key) <=> Field(val, key) # GNil
                  /\ Occurrences(wire, key) <= 1
                  /\ \A t \in FieldValues(Fld(other, TToken, TRUE)) :
                        LET d == Marshal(WithField(val, other, t))
                        IN  /\ HasKey(d, key) <=> HasKey(wire, key)
                            /\ HasKey(wire, key) => Member(d, key) = Member(wire, key)
            /\ op = "Unmarshal" /\ typ \in TokenStructures /\ wire[1] = "object" =>
                  /\ Stored(typ, wire, key) = 0 => Field(got, key) = GNil
                  /\ TokenOrNull(typ, wire, other) =>
                        Field(got, key) = Field(Unmarshal(typ, WithoutField(typ, wire, other)).val, key)

C14_Witness ==
    /\ op = "Unmarshal"
    /\ typ = "DocumentHighlightParams"
    /\ wire[1] = "object"
    /\ Stored(typ, wire, "workDoneToken") = 0
    /\ Stored(typ, wire, "partialResultToken") = 1
    /\ ~err
    /\ Field(got, "workDoneToken") = GNil
    /\ Field(got, "partialResultToken") = NewProgressToken(wantPartialResultToken)
    /\ val[1] = "struct"
    /\ Field(val, "workDoneToken") = GNil

(***************************************************************************)
(* C15  The encoding of a progress token.                                  *)
(***************************************************************************)
\* C15: in WorkDoneProgressCreateParams a token constructed from a string
\* is encoded as that JSON string and a token constructed from an integer
\* as that JSON number, and the token decoded from the encoding renders as
\* the string, respectively as the digits of the number.
C15_TokenEncoding ==
    typ = "WorkDoneProgressCreateParams" /\ val[1] = "struct" =>
        /\ \A s \in TokenStrings :
              Field(val, "token") = NewProgressToken(s)[2] =>
                  /\ Member(wire, "token") = JStr(s)
                  /\ op = "Unmarshal" =>
                        ~err /\ ProgressTokenString(Field(got, "token")) = s
        /\ \A n \in TokenNumbers :
              Field(val, "token") = NewNumberProgressToken(n)[2] =>
                  /\ Member(wire, "token") = JNum(n)
                  /\ op = "Unmarshal" =>
                        ~err /\ ProgressTokenString(Field(got, "token")) = FormatInt(n)

\* The token constructed from the empty string has made the round trip: it
\* was encoded as the JSON string "" and renders as the empty string.
C15_Witness ==
    /\ RoundTripped
    /\ typ = "WorkDoneProgressCreateParams"
    /\ Field(val, "token") = NewProgressToken("")[2]
    /\ Member(wire, "token") = JStr("")
    /\ ~err
    /\ ProgressTokenString(Field(got, "token")) = ""

(***************************************************************************)
(* C16  Enumeration values on the wire.                                    *)
(***************************************************************************)
\* The fields of a number-valued and of a string-valued enumeration type.
NumberEnumFields ==
    {<< "TextDocumentSyncOptions", "change" >>, << "ShowMessageParams", "type" >>}

StringEnumFields ==
    {<< "FileOperationPattern", "matches" >>, << "SetTraceParams", "value" >>}

\* C16: an enumeration value that is encoded is encoded as its underlying
\* number or string and comes back unchanged from a round trip, a member
\* or not; a number outside the members is decoded without error into the
\* field.  TextDocumentSyncKindFull is encoded as 1 and
\* FileOperationPatternKindFile as "file".
C16_EnumPassThrough ==
    /\ \A f \in NumberEnumFields \cup StringEnumFields :
          typ = f[1] /\ val[1] = "struct" =>
              /\ HasKey(wire, f[2]) =>
                    Member(wire, f[2]) =
                        (IF f \in NumberEnumFields THEN JNum(Field(val, f[2])[2])
                                                   ELSE JStr(Field(val, f[2])[2]))
              /\ ~HasKey(wire, f[2]) => Field(val, f[2]) = Zero(Schema(typ)[FieldNo(typ, f[2])].ty)
              /\ op = "Unmarshal" => ~err /\ Field(got, f[2]) = Field(val, f[2])
    /\ \A f \in NumberEnumFields :
          (/\ op = "Unmarshal" /\ typ = f[1] /\ wire[1] = "object"
           /\ Occurrences(wire, f[2]) = 1 /\ Stored(typ, wire, f[2]) = 1
           /\ Member(wire, f[2])[1] = "number") =>
              /\ Field(got, f[2]) = GFloat(Member(wire, f[2])[2])
              /\ err = Unmarshal(typ, WithMember(wire, f[2], JNum(1))).err
    /\ op = "Marshal" /\ val = Full("TextDocumentSyncOptions") =>
          /\ Field(val, "change") = GFloat(TextDocumentSyncKindFull)
          /\ Member(wire, "change") = JNum(1)
          /\ wire = testTextDocumentSyncOptions_want
    /\ op = "Marshal" /\ val = Full("FileOperationPattern") =>
          /\ Field(val, "matches") = GStr(FileOperationPatternKindFile)
          /\ Member(wire, "matches") = JStr("file")

C16_Witness ==
    /\ RoundTripped
    /\ typ = "TextDocumentSyncOptions"
    /\ Field(val, "change") = GFloat(99)
    /\ Member(wire, "change") = JNum(99)
    /\ ~err
    /\ Field(got, "change") = GFloat(99)


(***************************************************************************)
(* C17                                                                     *)
(***************************************************************************)
\* The text String() gives for the members of each enumeration.
MemberNames ==
    [MessageType |->
        {<< 1, "error" >>, << 2, "warning" >>, << 3, "info" >>, << 4, "log" >>},
     TextDocumentSyncKind |->
        {<< 0, "None" >>, << 1, "Full" >>, << 2, "Incremental" >>},
     PrepareSupportDefaultBehavior |-> {<< 1, "Identifier" >>}]

\* Decimal forms written out, against which the rendering of a value that
\* is not a member is compared.
Decimals ==
    {<< 0, "0" >>, << 5, "5" >>, << 9, "9" >>, << 10, "10" >>, << 42, "42" >>,
     << 99, "99" >>, << 100, "100" >>, << 101, "101" >>, << 120, "120" >>,
     << -1, "-1" >>, << -10, "-10" >>, << -99, "-99" >>, << -120, "-120" >>}

\* C17: String() of a member of TextDocumentSyncKind, of
\* PrepareSupportDefaultBehavior or of MessageType is the member's name
\* ("None", "Full", "Incremental"; "Identifier"; "error", "warning",
\* "info", "log"), and String() of any other value is the decimal form of
\* the value: 99 gives "99", 0 gives "0" where 0 is not a member, and no
\* value outside the members is rendered as a member's name or as the
\* text of another value.
C17_StringRendering ==
    op = "String" =>
        /\ \A m \in MemberNames[typ] : val = GFloat(m[1]) => got = GStr(m[2])
        /\ \A d \in Decimals :
              (val = GFloat(d[1]) /\ d[1] \notin {m[1] : m \in MemberNames[typ]}) =>
                  got = GStr(d[2])
        /\ val[2] \notin {m[1] : m \in MemberNames[typ]} =>
              /\ got[2] \notin {m[2] : m \in MemberNames[typ]}
              /\ got[2] # ""
              /\ \A n \in (-MaxEnum)..MaxEnum : n # val[2] => got # GStr(String(typ, n))

C17_Witness ==
    /\ op = "String"
    /\ typ = "MessageType"
    /\ val = GFloat(99)
    /\ got = GStr("99")


(***************************************************************************)
(* C18                                                                     *)
(***************************************************************************)
\* The list of workspace folders encoded has been decoded again.
FoldersRoundTripped == op = "UnmarshalFolders" /\ val # None

\* The folders of a list; the nil list has none.
Folders(v) == IF v[1] = "slice" THEN v[2] ELSE << >>

\* C18: a list of workspace folders that is encoded and decoded again comes
\* back without error as a list of the same length whose i-th folder has
\* the URI and the name of the i-th folder encoded; the document is an
\* array with one object per folder, in the order of the list, and each
\* object has the key uri before the key name.
C18_FoldersRoundTrip ==
    /\ FoldersRoundTripped =>
          /\ ~err
          /\ Len(Folders(got)) = Len(Folders(val))
          /\ \A i \in 1..Len(Folders(val)) :
                /\ Folders(got)[i] = Folders(val)[i]
                /\ Field(Folders(got)[i], "uri") = Field(Folders(val)[i], "uri")
                /\ Field(Folders(got)[i], "name") = Field(Folders(val)[i], "name")
    /\ (op \in {"MarshalFolders", "UnmarshalFolders"} /\ val # None /\ val[1] = "slice") =>
          /\ wire[1] = "array"
          /\ Len(wire[2]) = Len(val[2])
          /\ \A i \in 1..Len(val[2]) :
                wire[2][i] = JObj(<< << "uri", JStr(Field(val[2][i], "uri")[2]) >>,
                                    << "name", JStr(Field(val[2][i], "name")[2]) >> >>)
    /\ (op = "MarshalFolders" /\ val = testWorkspaceFolders_wantType) =>
          wire = testWorkspaceFolders_want
    /\ (op = "UnmarshalFolders" /\ wire = testWorkspaceFolders_want) =>
          ~err /\ got = testWorkspaceFolders_wantType

C18_Witness ==
    /\ FoldersRoundTripped
    /\ val = testWorkspaceFolders_wantType
    /\ wire = testWorkspaceFolders_want
    /\ got = val
    /\ Folders(got)[1] # Folders(got)[2]


EnabledCalled == op = "Enabled" /\ wire[1] = "level"

\* C24: m.Enabled(level) is true exactly when level > 0 and m >= level: it
\* is false for every m when level is 0 or negative, it is false when m is
\* below the level, MessageTypeLog enables each of the four defined levels,
\* and of the four defined levels MessageTypeError enables only
\* MessageTypeError.
C24_Enabled ==
    EnabledCalled =>
        /\ got[2] <=> (wire[2] > 0 /\ val[2] >= wire[2])
        /\ wire[2] <= 0 => got = GBool(FALSE)
        /\ val[2] < wire[2] => got = GBool(FALSE)
        /\ (val[2] = 4 /\ wire[2] \in {1, 2, 3, 4}) => got = GBool(TRUE)
        /\ (val[2] = 1 /\ wire[2] \in {1, 2, 3, 4}) => (got[2] <=> wire[2] = 1)
        /\ (val[2] = MessageTypeLog /\ wire[2] \in MessageTypes) => got[2]
        /\ (val[2] = MessageTypeError /\ wire[2] \in MessageTypes) =>
              (got[2] <=> wire[2] = MessageTypeError)

C24_Witness ==
    /\ EnabledCalled
    /\ val = GFloat(MessageTypeLog)
    /\ wire[2] = 0
    /\ got = GBool(FALSE)


(***************************************************************************)
(* C25                                                                     *)
(***************************************************************************)
\* The four names of messageTypeMap with the members they stand for.
DefinedNames ==
    {<< "error", 1 >>, << "warning", 2 >>, << "info", 3 >>, << "log", 4 >>}

\* C25: ToMessageType gives MessageTypeError, MessageTypeWarning,
\* MessageTypeInfo and MessageTypeLog for "error", "warning", "info" and
\* "log", and MessageType(0) for every other string: the empty string, a
\* name in another letter case, decimal digits.  It returns no error and
\* no value outside 0..4, and leaves the name table as it was.
C25_ToMessageType ==
    op = "ToMessageType" =>
        /\ \A d \in DefinedNames : wire[2] = d[1] => got = GFloat(d[2])
        /\ wire[2] \notin {d[1] : d \in DefinedNames} => got = GFloat(0)
        /\ wire[2] \in {"", "Error", "ERROR", "Log", "1", "4", "0"} => got = GFloat(0)
        /\ got[2] \in {0, 1, 2, 3, 4}
        /\ got[2] \in MessageTypes <=> wire[2] \in {d[1] : d \in DefinedNames}
        /\ ~err
        /\ messageTypeMap = messageTypeMapLiteral

C25_Witness ==
    /\ op = "ToMessageType"
    /\ wire = << "name", "1" >>
    /\ got = GFloat(0)

(***************************************************************************)
(* C26                                                                     *)
(***************************************************************************)
\* ToMessageType has been applied to the text String() gave for val.
NameRoundTripped == op = "ToMessageType" /\ val # None

\* C26 as stated: ToMessageType(m.String()) is m for each of the four
\* members and MessageType(0) for every other m, and the value that comes
\* back differs from the one that went in exactly when m is not a member.
C26_NameRoundTrip_AsStated ==
    NameRoundTripped =>
        /\ val[2] \in MessageTypes => got = val
        /\ val[2] \notin MessageTypes => got = GFloat(0)
        /\ (got # val) <=> (val[2] \notin MessageTypes)

\* C26 amended: ToMessageType(m.String()) is m for each of the four members, whose
\* names differ from one another, and is MessageType(0) for every m that
\* is not a member; the value that comes back is the one that went in for
\* the members and for 0, and for no other value.
C26_NameRoundTrip ==
    NameRoundTripped =>
        /\ wire[2] = MessageTypeString(val[2])
        /\ val[2] \in MessageTypes =>
              /\ got = val
              /\ wire[2] \in {d[1] : d \in DefinedNames}
              /\ \A m \in MessageTypes \ {val[2]} : MessageTypeString(m) # wire[2]
        /\ val[2] \notin MessageTypes => got = GFloat(0)
        /\ (got = val) <=> (val[2] \in MessageTypes \cup {0})

C26_Witness ==
    /\ NameRoundTripped
    /\ val = GFloat(0)
    /\ wire = << "name", "0" >>
    /\ got = val

(***************************************************************************)
(* C27                                                                     *)
(***************************************************************************)
\* Enabled has been called with the level ToMessageType gave for a name.
EnabledAtNamedLevel == op = "Enabled" /\ wire[1] = "name"

\* C27: the level obtained from a string that is not one of the four names
\* is enabled for no MessageType m; the level obtained from one of the
\* four names is enabled for the members at or above it.
C27_UnknownNeverEnabled ==
    EnabledAtNamedLevel =>
        /\ wire[2] \notin {d[1] : d \in DefinedNames} => got = GBool(FALSE)
        /\ \A d \in DefinedNames : wire[2] = d[1] => (got[2] <=> val[2] >= d[2])

C27_Witness ==
    /\ EnabledAtNamedLevel
    /\ wire = << "name", "debug" >>
    /\ val = GFloat(MessageTypeLog)
    /\ got = GBool(FALSE)


(***************************************************************************)
(* C28                                                                     *)
(***************************************************************************)
\* The window message structures with the keys they declare.
WindowStructures ==
    {<< "ShowMessageParams", << "message", "type" >> >>,
     << "LogMessageParams", << "message", "type" >> >>,
     << "ShowMessageRequestParams", << "actions", "message", "type" >> >>,
     << "WorkDoneProgressCreateParams", << "token" >> >>,
     << "WorkDoneProgressCancelParams", << "token" >> >>}

\* C28: the encoding of a window message structure has every key of the
\* structure, once and in declaration order, also when every field is
\* zero: message, type for ShowMessageParams and LogMessageParams;
\* actions, message, type for ShowMessageRequestParams, whose actions is
\* null for the nil list and [] for the empty one; token for
\* WorkDoneProgressCreateParams and WorkDoneProgressCancelParams.
C28_WindowKeys ==
    \A w \in WindowStructures :
        (op \in {"Marshal", "Unmarshal"} /\ typ = w[1] /\ val # None) =>
            /\ Keys(wire) = w[2]
            /\ Keys(wire) = DeclaredKeys(typ)
            /\ Keys(Marshal(Zero(TStruct(typ)))) = w[2]
            /\ typ = "ShowMessageRequestParams" =>
                  /\ Field(val, "actions") = GNil => Member(wire, "actions") = JNull
                  /\ Field(val, "actions") = GSlice(<< >>) =>
                        Member(wire, "actions") = JArr(<< >>)
                  /\ Field(val, "actions")[1] = "slice" =>
                        /\ Member(wire, "actions")[1] = "array"
                        /\ Len(Member(wire, "actions")[2]) = Len(Field(val, "actions")[2])

C28_Witness ==
    /\ op = "Marshal"
    /\ val = Zero(TStruct("ShowMessageRequestParams"))
    /\ wire = JObj(<< << "actions", JNull >>, << "message", JStr("") >>,
                      << "type", JNum(0) >> >>)


(***************************************************************************)
(* C23                                                                     *)
(***************************************************************************)
\* The end of a range is not before its start.
Ordered(r) ==
    LET b == Field(r, "start")
        e == Field(r, "end")
    IN  \/ Field(e, "line")[2] > Field(b, "line")[2]
        \/ /\ Field(e, "line")[2] = Field(b, "line")[2]
           /\ Field(e, "character")[2] >= Field(b, "character")[2]

\* The ranges a value holds: the value when it is a range, its selection
\* when it is a ShowDocumentParams with one.
RangesOf(v) ==
    IF v = None \/ v[1] # "struct" THEN {}
    ELSE IF v[2][1] = "Range" THEN {v}
    ELSE IF v[2][1] = "ShowDocumentParams" /\ Field(v, "selection")[1] = "ptr"
         THEN {Field(v, "selection")[2]}
    ELSE {}

\* A document is one of the ranges a peer may send.
IsRangeDoc(d) == d \in RangeDocuments

\* The end of a range document is not before its start.
OrderedDoc(d) ==
    LET b == Member(d, "start")
        e == Member(d, "end")
    IN  \/ Member(e, "line")[2] > Member(b, "line")[2]
        \/ /\ Member(e, "line")[2] = Member(b, "line")[2]
           /\ Member(e, "character")[2] >= Member(b, "character")[2]

\* C23 as stated: every range a value encoded or decoded holds has an end
\* that is not before its start.
C23_RangeOrdered_AsStated ==
    op \in {"Marshal", "Unmarshal"} =>
        \A r \in RangesOf(val) \cup RangesOf(got) : Ordered(r)

\* C23 amended: a range is encoded and decoded as it is, ordered or not.
\* Decoding a range document returns, without error, the range with the
\* start and the end of the document, whose end is before its start
\* exactly when the document's is; a range that is encoded and decoded
\* again comes back unchanged; the selection of testShowDocumentParams,
\* (255,4) to (255,10), is ordered.
C23_RangeFaithful ==
    /\ (op = "Unmarshal" /\ typ = "Range" /\ IsRangeDoc(wire)) =>
          /\ ~err
          /\ Marshal(got) = wire
          /\ Ordered(got) <=> OrderedDoc(wire)
    /\ (op = "Unmarshal" /\ typ = "ShowDocumentParams" /\ wire[1] = "object"
        /\ Keys(wire) = << "uri", "selection" >> /\ Member(wire, "uri")[1] = "string"
        /\ IsRangeDoc(Member(wire, "selection"))) =>
          /\ ~err
          /\ Marshal(Field(got, "selection")) = Member(wire, "selection")
          /\ \A r \in RangesOf(got) : Ordered(r) <=> OrderedDoc(Member(wire, "selection"))
    /\ (RoundTripped /\ typ \in {"Range", "ShowDocumentParams"}) => ~err /\ got = val
    /\ (op = "Unmarshal" /\ typ = "ShowDocumentParams" /\ wire = testShowDocumentParams_want) =>
          /\ got = testShowDocumentParams_wantType
          /\ \A r \in RangesOf(got) : Ordered(r)

C23_Witness ==
    /\ op = "Unmarshal"
    /\ typ = "Range"
    /\ wire = RangeDoc(255, 10, 255, 4)
    /\ ~err
    /\ ~Ordered(got)


(***************************************************************************)
(* C21.  Under any interleaving of concurrent Marshal, Unmarshal, String,  *)
(* Enabled and ToMessageType calls on values of the callers' own, the      *)
(* package-level table messageTypeMap is never written after its           *)
(* initialisation, and every call that has returned has the result the     *)
(* same call has when it runs alone from the initial state.                *)
(***************************************************************************)
\* The result of ToMessageType run alone, with the table as initialised.
AloneToMessageType(level) ==
    IF level \in DOMAIN messageTypeMapLiteral THEN messageTypeMapLiteral[level] ELSE 0

\* The result of a decode run alone into a new destination.
AloneUnmarshal(n, d) ==
    IF d[1] = "object" THEN decodeValue(TStruct(n), d, Zero(TStruct(n)))
    ELSE IF d = JNull THEN Ok(Zero(TStruct(n)))
    ELSE TypeError(Zero(TStruct(n)))

C21_NoSharedWrite ==
    /\ messageTypeMap = messageTypeMapLiteral
    /\ \A p \in Procs :
          /\ op[p] = Returned("ToMessageType") =>
                got[p] = GFloat(AloneToMessageType(wire[p][2]))
          /\ op[p] = Returned("Enabled") =>
                got[p] = GBool(wire[p][2] > 0 /\ val[p][2] >= wire[p][2])
          /\ op[p] = Returned("String") =>
                got[p] = GStr(IF val[p][2] = 1 THEN "error" ELSE "5")
          /\ op[p] = Returned("Marshal") =>
                /\ wire[p][1] = "object"
                /\ val[p] = Zero(TStruct("ClientInfo")) =>
                      Keys(wire[p]) = << "name" >>
                /\ val[p] = Full("ClientInfo") =>
                      Keys(wire[p]) = << "name", "version" >>
          /\ op[p] = Returned("Unmarshal") =>
                /\ got[p] = AloneUnmarshal(typ[p], wire[p]).val
                /\ err[p] = AloneUnmarshal(typ[p], wire[p]).err
                /\ wire[p] = Marshal(Full("ClientInfo")) =>
                      got[p] = Full("ClientInfo") /\ ~err[p]

\* One goroutine has looked up an unknown name while the other is between
\* binding its argument and reading the table.
C21_Witness ==
    /\ op[1] = Returned("ToMessageType")
    /\ wire[1] = << "name", "debug" >>
    /\ got[1] = GFloat(0)
    /\ op[2] = Called("ToMessageType")
    /\ wire[2] = << "name", "error" >>

====
